---- MODULE Spec2Model ----
(***************************************************************************)
(* Verification model of the center-console Streamlit dashboard.           *)
(*                                                                         *)
(* Every page is a script that Streamlit re-executes from top to bottom    *)
(* on each user interaction ("script run").  An action of this model is    *)
(* one complete script run (including the run that st.rerun() starts when  *)
(* the code calls it), together with the outcome of each HTTP call the run *)
(* makes, which the remote API decides.                                    *)
(***************************************************************************)
EXTENDS Integers, Sequences, FiniteSets, TLC

VARIABLES
    env,        \* process environment read by Config (config.py:10-13)
    config,     \* outcome of the last Config() construction
    training,   \* the API's training table: imdb_id -> row
    http,       \* requests issued by the last user action, in order
    ui,         \* messages on screen after the last user action
    act,        \* the last user action, its inputs and what it returned
    session,    \* st.session_state of the browser session: key -> value
    widgets,    \* values of the input widgets of the page being used
    screen,     \* buttons and rows the last script run rendered
    media,      \* the API's media table: hash -> row
    cache       \* st.cache_data: entries that have not expired, key -> value

vars ==
    <<env, config, training, http, ui, act, session, widgets, screen, media, cache>>

\* State of the pages that a specification does not exercise.
pageVars == <<session, widgets, screen>>
NoPage ==
    /\ session = <<>>
    /\ widgets = <<>>
    /\ screen = {}

\* State of the media pages, for the specifications that do not use them.
mediaVars == <<media, cache>>
NoMedia ==
    /\ media = <<>>
    /\ cache = <<>>

(***************************************************************************)
(* Generic helpers                                                         *)
(***************************************************************************)

\* Python's None / a value: an optional is a sequence of length <= 1.
None == <<>>
Some(v) == <<v>>
IsNone(o) == o = <<>>
Val(o) == o[1]

(***************************************************************************)
(* config.py                                                               *)
(***************************************************************************)

\* Values an environment variable holding text can have in the model.
HostValues == {"", "h"}
PortValues == {"", "80"}
PrefixValues == {"", "api"}

\* Characters of CENTER_CONSOLE_API_TIMEOUT in the model.
Digits == {"0", "3"}
TimeoutChars == Digits \cup {"-", "a", " "}
MaxTimeoutLen == 2
TimeoutValues == UNION {[1..n -> TimeoutChars] : n \in 0..MaxTimeoutLen}

DigitValue(c) == IF c = "3" THEN 3 ELSE 0

RECURSIVE LStrip(_)
LStrip(s) == IF s # <<>> /\ Head(s) = " " THEN LStrip(Tail(s)) ELSE s

RECURSIVE RStrip(_)
RStrip(s) ==
    IF s # <<>> /\ s[Len(s)] = " " THEN RStrip(SubSeq(s, 1, Len(s) - 1)) ELSE s

RECURSIVE DigitsValue(_)
DigitsValue(s) ==
    IF s = <<>> THEN 0
    ELSE 10 * DigitsValue(SubSeq(s, 1, Len(s) - 1)) + DigitValue(s[Len(s)])

\* int(text): surrounding whitespace is ignored, an optional sign is followed
\* by one or more decimal digits; anything else raises ValueError (None).
PyInt(text) ==
    LET t == RStrip(LStrip(text))
        neg == t # <<>> /\ Head(t) = "-"
        d == IF neg THEN Tail(t) ELSE t
    IN  IF d = <<>> \/ \E i \in 1..Len(d) : d[i] \notin Digits
        THEN None
        ELSE Some(IF neg THEN 0 - DigitsValue(d) ELSE DigitsValue(d))

RECURSIVE Text(_)
Text(s) == IF s = <<>> THEN "" ELSE Head(s) \o Text(Tail(s))

\* os.getenv(name, default)
getenv(e, name, default) == IF IsNone(e[name]) THEN default ELSE Val(e[name])

\* Python truthiness of an optional string: None and "" are falsy.
Falsy(o) == IsNone(o) \/ Val(o) = ""

RECURSIVE Join(_)
Join(names) ==
    IF names = <<>> THEN ""
    ELSE IF Len(names) = 1 THEN names[1]
    ELSE names[1] \o ", " \o Join(Tail(names))

validate_config_host_only(host, port) ==
    IF Falsy(host) THEN <<"REAR_DIFF_HOST">> ELSE <<>>

\* Config._validate_config: the list `missing`
validate_config(host, port) ==
    (IF Falsy(host) THEN <<"REAR_DIFF_HOST">> ELSE <<>>)
    \o (IF Falsy(port) THEN <<"REAR_DIFF_PORT_EXTERNAL">> ELSE <<>>)

\* Config.base_url
base_url(c) ==
    "http://" \o c.rear_diff_host \o ":" \o c.rear_diff_port \o "/"
        \o c.rear_diff_prefix \o "/"

NoConfig == [status |-> "none"]

\* Config.__init__: the object built, or the ValueError raised
Config_init(e) ==
    LET timeout == PyInt(getenv(e, "CENTER_CONSOLE_API_TIMEOUT", <<"3", "0">>))
        missing == validate_config(e.REAR_DIFF_HOST, e.REAR_DIFF_PORT_EXTERNAL)
    IN  IF IsNone(timeout)
        THEN [status |-> "ValueError",
              message |-> "invalid literal for int() with base 10: '"
                  \o Text(getenv(e, "CENTER_CONSOLE_API_TIMEOUT", <<"3", "0">>))
                  \o "'"]
        ELSE IF missing # <<>>
        THEN [status |-> "ValueError",
              message |-> "Missing required environment variables: "
                  \o Join(missing)]
        ELSE [status |-> "ok",
              rear_diff_host |-> Val(e.REAR_DIFF_HOST),
              rear_diff_port |-> Val(e.REAR_DIFF_PORT_EXTERNAL),
              rear_diff_prefix |-> getenv(e, "REAR_DIFF_PREFIX", "rear-diff"),
              api_timeout |-> Val(timeout)]

Opt(S) == {None} \cup {Some(v) : v \in S}

EnvSpace ==
    [REAR_DIFF_HOST : Opt(HostValues),
     REAR_DIFF_PORT_EXTERNAL : Opt(PortValues),
     REAR_DIFF_PREFIX : Opt(PrefixValues),
     CENTER_CONSOLE_API_TIMEOUT : Opt(TimeoutValues)]

NoAction == [name |-> "none"]

\* The deployment sets the environment before a process starts.
InitConfig ==
    /\ env \in EnvSpace
    /\ config = NoConfig
    /\ training = <<>>
    /\ http = <<>>
    /\ ui = {}
    /\ act = NoAction
    /\ NoPage
    /\ NoMedia

FrameConfig == UNCHANGED <<training, http, ui, act, pageVars, mediaVars>>

\* A page's main() constructs Config() from the process environment.
NewConfig ==
    /\ config' = Config_init(env)
    /\ UNCHANGED env
    /\ FrameConfig

\* The process is restarted with one variable changed.
Redeploy ==
    /\ \E name \in DOMAIN env :
          \E v \in {e[name] : e \in EnvSpace} \ {env[name]} :
              env' = [env EXCEPT ![name] = v]
    /\ config' = NoConfig
    /\ FrameConfig

NextConfig == NewConfig \/ Redeploy

SpecConfig == InitConfig /\ [][NextConfig]_vars

(***************************************************************************)
(* C2                                                                      *)
(***************************************************************************)

TimeoutText == getenv(env, "CENTER_CONSOLE_API_TIMEOUT", <<"3", "0">>)
HostMissing == IsNone(env.REAR_DIFF_HOST) \/ env.REAR_DIFF_HOST = Some("")
PortMissing ==
    IsNone(env.REAR_DIFF_PORT_EXTERNAL) \/ env.REAR_DIFF_PORT_EXTERNAL = Some("")

\* The message the claim expects for the variables that are missing.
ExpectedMissingMessage ==
    IF HostMissing /\ PortMissing
    THEN "Missing required environment variables: REAR_DIFF_HOST, REAR_DIFF_PORT_EXTERNAL"
    ELSE IF HostMissing
    THEN "Missing required environment variables: REAR_DIFF_HOST"
    ELSE "Missing required environment variables: REAR_DIFF_PORT_EXTERNAL"

\* The base URL the claim expects of a constructed Config.
ExpectedBaseUrl ==
    "http://" \o Val(env.REAR_DIFF_HOST) \o ":" \o Val(env.REAR_DIFF_PORT_EXTERNAL)
        \o "/"
        \o (IF IsNone(env.REAR_DIFF_PREFIX) THEN "rear-diff"
            ELSE Val(env.REAR_DIFF_PREFIX))
        \o "/"

\* C2 as stated: Config() raises ValueError exactly when REAR_DIFF_HOST or
\* REAR_DIFF_PORT_EXTERNAL is unset or empty, the error names exactly the
\* missing ones in that order, and otherwise (timeout parsing) construction
\* succeeds with base_url http://<host>:<port>/<prefix>/.
C2_AsStated ==
    config.status # "none" =>
        /\ (config.status = "ValueError") <=> (HostMissing \/ PortMissing)
        /\ config.status = "ValueError" => config.message = ExpectedMissingMessage
        /\ (~HostMissing /\ ~PortMissing /\ ~IsNone(PyInt(TimeoutText))) =>
              /\ config.status = "ok"
              /\ base_url(config) = ExpectedBaseUrl

\* C2 amended: when CENTER_CONSOLE_API_TIMEOUT is unset or parses as an
\* integer, Config() raises ValueError exactly when REAR_DIFF_HOST or
\* REAR_DIFF_PORT_EXTERNAL is unset or empty, naming exactly the missing ones
\* in that order, and otherwise succeeds with base_url
\* http://<host>:<port>/<prefix>/ (prefix defaulting to rear-diff); when the
\* timeout does not parse, Config() raises the ValueError of int() whatever
\* the host and port are, and that error names neither variable.
C2_ConfigValidation ==
    config.status # "none" =>
        IF IsNone(PyInt(TimeoutText))
        THEN /\ config.status = "ValueError"
             /\ config.message =
                    "invalid literal for int() with base 10: '"
                        \o Text(TimeoutText) \o "'"
        ELSE /\ (config.status = "ValueError") <=> (HostMissing \/ PortMissing)
             /\ config.status = "ValueError" =>
                    config.message = ExpectedMissingMessage
             /\ config.status = "ok" =>
                    /\ base_url(config) = ExpectedBaseUrl
                    /\ config.api_timeout = Val(PyInt(TimeoutText))

\* Both variables missing, the timeout parsing: the error names both.
C2_Witness ==
    /\ config.status = "ValueError"
    /\ HostMissing /\ PortMissing
    /\ ~IsNone(PyInt(TimeoutText))
    /\ env.CENTER_CONSOLE_API_TIMEOUT # None


(***************************************************************************)
(* The remote API as the pages see it                                      *)
(***************************************************************************)

\* How a request can end: a 2xx answer with a decodable body, or one of the
\* exceptions `requests` raises (raise_for_status() raises HTTPError,
\* response.json() raises JSONDecodeError).
PatchOutcomes == {"ok", "ConnectionError", "Timeout", "HTTPError"}
GetOutcomes == PatchOutcomes \cup {"JSONDecodeError"}

\* The environment every page runs in: Config() succeeds.
PageEnv ==
    [REAR_DIFF_HOST |-> Some("h"), REAR_DIFF_PORT_EXTERNAL |-> Some("80"),
     REAR_DIFF_PREFIX |-> None, CENTER_CONSOLE_API_TIMEOUT |-> None]

\* Config.get_training_update_endpoint
get_training_update_endpoint(c, imdb_id) == base_url(c) \o "training/" \o imdb_id

\* Config.get_media_pipeline_endpoint
get_media_pipeline_endpoint(c, hash_id) ==
    base_url(c) \o "media/" \o hash_id \o "/pipeline"

\* Config.get_training_would_not_watch_endpoint
get_training_would_not_watch_endpoint(c, imdb_id) ==
    base_url(c) \o "training/" \o imdb_id \o "/would_not_watch"

\* Config.get_training_would_watch_endpoint
get_training_would_watch_endpoint(c, imdb_id) ==
    base_url(c) \o "training/" \o imdb_id \o "/would_watch"

\* Calling the method `name` of a Config object: the URL it returns, or None
\* when class Config defines no such method (Python raises AttributeError).
ConfigMethod(c, name, arg) ==
    CASE name = "get_training_update_endpoint" ->
            Some(get_training_update_endpoint(c, arg))
      [] name = "get_media_pipeline_endpoint" ->
            Some(get_media_pipeline_endpoint(c, arg))
      [] name = "get_training_would_not_watch_endpoint" ->
            Some(get_training_would_not_watch_endpoint(c, arg))
      [] name = "get_training_would_watch_endpoint" ->
            Some(get_training_would_watch_endpoint(c, arg))
      [] OTHER -> None

(***************************************************************************)
(* update_label on the five pages that define it                           *)
(***************************************************************************)

ImdbIds == {"tt1", "tt2"}
Labels == {"would_watch", "would_not_watch"}
\* item.get('label', ''): a row may carry no label yet.
StoredLabels == Labels \cup {""}

TrainingRows == [label : StoredLabels, human_labeled : BOOLEAN, reviewed : BOOLEAN]

Request(method, url, json, outcome) ==
    [method |-> method, url |-> url, json |-> json, outcome |-> outcome]

\* What a function that talks to the API did: the requests it issued, the
\* value it returned and the st.error messages it showed.
Call(requests, ret, errors) ==
    [requests |-> requests, ret |-> ret, errors |-> errors]

update_label_always_labels(c, imdb_id, new_label, current_label, outcome) ==
    Call(<<Request("PATCH", get_training_update_endpoint(c, imdb_id),
                   [imdb_id |-> imdb_id, label |-> new_label,
                    human_labeled |-> TRUE, reviewed |-> TRUE], outcome)>>,
         outcome = "ok",
         IF outcome = "ok" THEN {}
         ELSE {"Failed to update training item " \o imdb_id \o ": " \o outcome})

\* prediction.py update_label
update_label_prediction(c, imdb_id, new_label, current_label, outcome) ==
    LET payload ==
            IF new_label = current_label
            THEN [imdb_id |-> imdb_id, reviewed |-> TRUE]
            ELSE [imdb_id |-> imdb_id, label |-> new_label,
                  human_labeled |-> TRUE, reviewed |-> TRUE]
    IN  Call(<<Request("PATCH", get_training_update_endpoint(c, imdb_id),
                       payload, outcome)>>,
             outcome = "ok",
             IF outcome = "ok" THEN {}
             ELSE {"Failed to update training item " \o imdb_id \o ": " \o outcome})

\* training_search.py update_label
update_label_training_search(c, imdb_id, new_label, current_label, outcome) ==
    LET payload ==
            IF new_label = current_label
            THEN [imdb_id |-> imdb_id, reviewed |-> TRUE]
            ELSE [imdb_id |-> imdb_id, label |-> new_label,
                  human_labeled |-> TRUE, reviewed |-> TRUE]
    IN  Call(<<Request("PATCH", get_training_update_endpoint(c, imdb_id),
                       payload, outcome)>>,
             outcome = "ok",
             IF outcome = "ok" THEN {}
             ELSE {"Failed to update training item " \o imdb_id \o ": " \o outcome})

\* training.py update_label
update_label_training(c, imdb_id, new_label, current_label, outcome) ==
    LET payload ==
            IF new_label = current_label
            THEN [imdb_id |-> imdb_id, reviewed |-> TRUE]
            ELSE [imdb_id |-> imdb_id, label |-> new_label,
                  human_labeled |-> TRUE, reviewed |-> TRUE]
    IN  Call(<<Request("PATCH", get_training_update_endpoint(c, imdb_id),
                       payload, outcome)>>,
             outcome = "ok",
             IF outcome = "ok" THEN {}
             ELSE {"Failed to update training item " \o imdb_id \o ": " \o outcome})

\* app.py update_label: the payload is built, then the endpoint is looked up
\* on the Config object inside the try block.
update_label_app(c, imdb_id, new_label, outcome) ==
    LET payload == [imdb_id |-> imdb_id, label |-> new_label,
                    human_labeled |-> TRUE, reviewed |-> TRUE]
        endpoint == ConfigMethod(c, "get_label_update_endpoint", imdb_id)
    IN  IF IsNone(endpoint)
        THEN Call(<<>>, FALSE,
                  {"Failed to update label for " \o imdb_id \o ": AttributeError"})
        ELSE Call(<<Request("PATCH", Val(endpoint), payload, outcome)>>,
                  outcome = "ok",
                  IF outcome = "ok" THEN {}
                  ELSE {"Failed to update label for " \o imdb_id \o ": " \o outcome})

\* prediction_anomalies.py mark_as_reviewed
mark_as_reviewed(c, imdb_id, outcome) ==
    Call(<<Request("PATCH", base_url(c) \o "training/" \o imdb_id \o "/reviewed",
                   [imdb_id |-> imdb_id, reviewed |-> TRUE], outcome)>>,
         outcome = "ok",
         IF outcome = "ok" THEN {}
         ELSE {"Failed to mark " \o imdb_id \o " as reviewed: " \o outcome})

\* prediction_anomalies.py update_label
update_label_prediction_anomalies(c, imdb_id, new_label, current_label, outcome) ==
    IF new_label = current_label
    THEN mark_as_reviewed(c, imdb_id, outcome)
    ELSE LET payload == [imdb_id |-> imdb_id, label |-> new_label,
                         human_labeled |-> TRUE, reviewed |-> TRUE]
             endpoint == ConfigMethod(c, "get_label_update_endpoint", imdb_id)
         IN  IF IsNone(endpoint)
             THEN Call(<<>>, FALSE,
                       {"Failed to update label for " \o imdb_id
                            \o ": AttributeError"})
             ELSE Call(<<Request("PATCH", Val(endpoint), payload, outcome)>>,
                       outcome = "ok",
                       IF outcome = "ok" THEN {}
                       ELSE {"Failed to update label for " \o imdb_id \o ": "
                                \o outcome})

\* The API applies an accepted PATCH: the fields the payload carries replace
\* the row's.
ApplyPatch(row, requests) ==
    IF requests = <<>> \/ requests[1].outcome # "ok" THEN row
    ELSE [f \in DOMAIN row |->
            IF f \in DOMAIN requests[1].json THEN requests[1].json[f] ELSE row[f]]

InitLabel ==
    /\ env = PageEnv
    /\ config = Config_init(PageEnv)
    /\ training \in [ImdbIds -> TrainingRows]
    /\ http = <<>>
    /\ ui = {}
    /\ act = NoAction
    /\ NoPage
    /\ NoMedia

\* The effect of a label button's handler: `r` is what update_label did; the
\* page calls st.rerun() exactly when it returned True.
LabelHandled(page, imdb_id, new_label, current_label, r) ==
    /\ http' = r.requests
    /\ ui' = r.errors
    /\ training' = [training EXCEPT ![imdb_id] = ApplyPatch(@, r.requests)]
    /\ act' = [name |-> "label", page |-> page, imdb_id |-> imdb_id,
               new_label |-> new_label, current_label |-> current_label,
               ret |-> r.ret, rerun |-> r.ret]
    /\ UNCHANGED <<env, config, pageVars, mediaVars>>

\* prediction.py:698-708: a would_watch / would_not button of a listed movie.
ClickLabelPrediction ==
    \E imdb_id \in ImdbIds, new_label \in Labels, outcome \in PatchOutcomes :
        LET current_label == training[imdb_id].label
        IN  LabelHandled("prediction", imdb_id, new_label, current_label,
                update_label_prediction(config, imdb_id, new_label,
                                        current_label, outcome))

\* training_search.py:300-314
ClickLabelTrainingSearch ==
    \E imdb_id \in ImdbIds, new_label \in Labels, outcome \in PatchOutcomes :
        LET current_label == training[imdb_id].label
        IN  LabelHandled("training_search", imdb_id, new_label, current_label,
                update_label_training_search(config, imdb_id, new_label,
                                             current_label, outcome))

\* training.py:486-511: update_label called with any current label.
CallUpdateLabelTraining ==
    \E imdb_id \in ImdbIds, new_label \in Labels, outcome \in PatchOutcomes,
       current_label \in StoredLabels :
        LabelHandled("training", imdb_id, new_label, current_label,
            update_label_training(config, imdb_id, new_label, current_label,
                                  outcome))

\* app.py:166-181
ClickLabelApp ==
    \E imdb_id \in ImdbIds, new_label \in Labels, outcome \in PatchOutcomes :
        LabelHandled("app", imdb_id, new_label, training[imdb_id].label,
            update_label_app(config, imdb_id, new_label, outcome))

\* prediction_anomalies.py:494-511
ClickLabelPredictionAnomalies ==
    \E imdb_id \in ImdbIds, new_label \in Labels, outcome \in PatchOutcomes :
        LET current_label == training[imdb_id].label
        IN  LabelHandled("prediction_anomalies", imdb_id, new_label,
                current_label,
                update_label_prediction_anomalies(config, imdb_id, new_label,
                                                  current_label, outcome))

NextLabel ==
    \/ ClickLabelPrediction
    \/ ClickLabelTrainingSearch
    \/ CallUpdateLabelTraining
    \/ ClickLabelApp
    \/ ClickLabelPredictionAnomalies

SpecLabel == InitLabel /\ [][NextLabel]_vars

(***************************************************************************)
(* C3                                                                      *)
(***************************************************************************)

C3_Pages == {"prediction", "training_search", "training"}

\* C3: on the prediction, training-search and training pages update_label
\* sends {imdb_id, reviewed: true} and nothing else when the new label equals
\* the current one, and {imdb_id, label: new_label, human_labeled: true,
\* reviewed: true} when they differ; so a confirmation never carries
\* human_labeled and every label click carries reviewed = true.
C3_LabelPayload ==
    (act.name = "label" /\ act.page \in C3_Pages) =>
        /\ Len(http) = 1
        /\ http[1].method = "PATCH"
        /\ http[1].json.imdb_id = act.imdb_id
        /\ http[1].json.reviewed = TRUE
        /\ IF act.new_label = act.current_label
           THEN DOMAIN http[1].json = {"imdb_id", "reviewed"}
           ELSE /\ DOMAIN http[1].json =
                      {"imdb_id", "label", "human_labeled", "reviewed"}
                /\ http[1].json.label = act.new_label
                /\ http[1].json.human_labeled = TRUE

\* A click that confirms the label the item already has, accepted by the API.
C3_Witness ==
    /\ act.name = "label" /\ act.page = "prediction"
    /\ act.new_label = act.current_label
    /\ act.ret
    /\ training[act.imdb_id].reviewed
    /\ ~training[act.imdb_id].human_labeled

(***************************************************************************)
(* C7                                                                      *)
(***************************************************************************)

C7_Pages == {"app", "prediction_anomalies"}

\* C7: on the Training Backlog page (app.py) and the prediction-anomalies
\* page, choosing a label that differs from the item's current label sends one
\* PATCH to the item's label-update endpoint with payload {imdb_id, label:
\* new_label, human_labeled: true, reviewed: true}; update_label returns True
\* when the server accepts it, and the page then re-renders.
C7_LabelUpdateSent ==
    (act.name = "label" /\ act.page \in C7_Pages
        /\ act.new_label # act.current_label) =>
        /\ Len(http) = 1
        /\ http[1].method = "PATCH"
        /\ http[1].json = [imdb_id |-> act.imdb_id, label |-> act.new_label,
                           human_labeled |-> TRUE, reviewed |-> TRUE]
        /\ http[1].outcome = "ok" => (act.ret /\ act.rerun)

(***************************************************************************)
(* st.session_state                                                        *)
(***************************************************************************)

\* st.session_state.key = value
Put(ss, key, value) ==
    [k \in DOMAIN ss \cup {key} |-> IF k = key THEN value ELSE ss[k]]

\* if 'key' not in st.session_state: st.session_state.key = value
SetDefault(ss, key, value) == IF key \in DOMAIN ss THEN ss ELSE Put(ss, key, value)

\* st.session_state.get(key, default)
Get(ss, key, default) == IF key \in DOMAIN ss THEN ss[key] ELSE default

\* What a script run leaves behind.  `rerun` tells that the run ended in
\* st.rerun(), which discards what it rendered and starts the next run.
Run(ss, requests, messages, rendered, rerun) ==
    [session |-> ss, http |-> requests, ui |-> messages, screen |-> rendered,
     rerun |-> rerun, handled |-> FALSE]

\* A run in which the pressed button was rendered again, so that st.button
\* returned True and the button's handler ran.
Handled(run) == [run EXCEPT !.handled = TRUE]

GetRequest(url, params, outcome) ==
    [method |-> "GET", url |-> url, params |-> params, outcome |-> outcome]

Min(a, b) == IF a < b THEN a ELSE b

(***************************************************************************)
(* pages/prediction.py                                                     *)
(***************************************************************************)

InitialLimit == 20
LimitStep == 20
MaxLimit == 100

CmFilters == {"all", "fp", "fn", "tp", "tn"}
AnomalousFilters == {"any", "true", "false"}
\* The options the model's user picks among.
CmChoices == {"all", "fp"}
AnomalousChoices == {"any", "true"}
SortSelections == {"pred-proba-desc", "pred-proba-asc"}

\* Number of movies the API holds for a filter, beyond those it is asked for.
FewMovies == 5

\* The rows of a response: how many there are and which of the movies the
\* model follows are among them.
Rows(n, tracked) == [n |-> n, tracked |-> tracked]
NoRows == Rows(0, {})

\* The body the movies endpoint answers a request for `limit` rows with: no
\* row, a few rows, or as many as were asked for.
MovieResponse(api, limit) ==
    IF api.size = "none" THEN NoRows
    ELSE Rows(IF api.size = "few" THEN Min(FewMovies, limit) ELSE limit,
              api.tracked)

\* fetch_prediction_data: one GET of movies/, None when it fails
fetch_prediction_data(c, cm_value_filter, anomalous_filter, offset, limit, sort_order, api) ==
    LET base == [limit |-> limit, offset |-> offset, media_type |-> "movie",
                 sort_by |-> "probability", sort_order |-> sort_order]
        withCm == IF cm_value_filter # "all"
                  THEN Put(base, "cm_value", cm_value_filter) ELSE base
        params == IF anomalous_filter # "any"
                  THEN Put(withCm, "anomalous", anomalous_filter = "true")
                  ELSE withCm
        req == GetRequest(base_url(c) \o "movies/", params, api.get)
    IN  IF api.get = "ok"
        THEN Call(<<req>>, Some(MovieResponse(api, limit)), {})
        ELSE Call(<<req>>, None, {"Failed to fetch movie data: " \o api.get})

\* rerun_metadata: the session state is part of what it returns
rerun_metadata(c, ss, imdb_id, outcome, success) ==
    LET endpoint == ConfigMethod(c, "get_training_rerun_metadata_endpoint", imdb_id)
    IN  IF IsNone(endpoint)
        THEN [call |-> Call(<<>>, FALSE,
                  {"Failed to rerun metadata for " \o imdb_id \o ": AttributeError"}),
              session |-> ss]
        ELSE IF outcome # "ok"
        THEN [call |-> Call(<<Request("PATCH", Val(endpoint), <<>>, outcome)>>,
                  FALSE,
                  {"Failed to rerun metadata for " \o imdb_id \o ": " \o outcome}),
              session |-> ss]
        ELSE [call |-> Call(<<Request("PATCH", Val(endpoint), <<>>, outcome)>>,
                  TRUE, {}),
              session |->
                  IF success
                  THEN Put(ss, "rerun_ids", Get(ss, "rerun_ids", {}) \cup {imdb_id})
                  ELSE ss]

NoClick == [kind |-> "none"]

load_more_without_cap(limit) == limit + LimitStep

\* prediction.py:791
load_more(limit) == Min(limit + LimitStep, MaxLimit)

filter_changed_from_previous(ss, cm_value_filter, anomalous_filter) ==
    \/ ss.current_filter # cm_value_filter
    \/ ss.current_anomalous_filter # anomalous_filter

\* prediction.py:594-603: the session state is overwritten with the selected
\* filters first, and compared with them afterwards.
filter_changed(ss, cm_value_filter, anomalous_filter) ==
    LET updated == Put(Put(ss, "current_filter", cm_value_filter),
                       "current_anomalous_filter", anomalous_filter)
    IN  \/ updated.current_filter # cm_value_filter
        \/ updated.current_anomalous_filter # anomalous_filter

load_more_offered_at_any_limit(ss, predictions) ==
    predictions.n = ss.current_limit

\* prediction.py:786: when the "Load More" button is rendered
load_more_offered(ss, predictions) ==
    ss.current_limit < MaxLimit /\ predictions.n = ss.current_limit

\* The buttons of the listed movies: the rerun button is primary for the ids
\* in session rerun_ids.
MovieButtons(ss, body) ==
    {<<"rerun", id, IF id \in Get(ss, "rerun_ids", {}) THEN "primary"
                    ELSE "secondary">> : id \in body.tracked}

\* One script run of prediction.py main().  `w` holds the widget values,
\* `click` the button pressed (if any), `api` the answers of the remote API
\* to the requests the run may issue.
prediction_main(c, ss0, w, click, api) ==
    LET ss1 == SetDefault(SetDefault(SetDefault(SetDefault(SetDefault(ss0,
                    "predictions", NoRows),
                    "current_limit", InitialLimit),
                    "current_filter", "all"),
                    "sort_ascending", FALSE),
                    "current_anomalous_filter", "any")
    IN  IF w.sort = "pred-proba-asc" /\ ~ss1.sort_ascending
        THEN Run(Put(ss1, "sort_ascending", TRUE), <<>>, {}, {}, TRUE)
        ELSE IF w.sort = "pred-proba-desc" /\ ss1.sort_ascending
        THEN Run(Put(ss1, "sort_ascending", FALSE), <<>>, {}, {}, TRUE)
        ELSE
        LET changed == filter_changed(ss1, w.cm, w.anomalous)
            ss2 == Put(Put(ss1, "current_filter", w.cm),
                       "current_anomalous_filter", w.anomalous)
            ss3 == IF changed THEN Put(ss2, "current_limit", InitialLimit) ELSE ss2
            sort_order == IF ss3.sort_ascending THEN "asc" ELSE "desc"
            result == fetch_prediction_data(c, w.cm, w.anomalous, 0,
                          ss3.current_limit, sort_order, api)
        IN  IF IsNone(result.ret)
            THEN Run(ss3, result.requests, result.errors, {}, FALSE)
            ELSE
            LET predictions == Val(result.ret)
                ss4 == Put(ss3, "predictions", predictions)
            IN  IF predictions.n = 0
                THEN Run(ss4, result.requests, {"No prediction anomalies found"},
                         {}, FALSE)
                ELSE
                LET rerunClicked == click.kind = "rerun"
                                      /\ click.imdb_id \in predictions.tracked
                    meta == IF rerunClicked
                            THEN rerun_metadata(c, ss4, click.imdb_id,
                                                api.patch, api.success)
                            ELSE [call |-> Call(<<>>, FALSE, {}), session |-> ss4]
                    ss5 == meta.session
                    requests == result.requests \o meta.call.requests
                    offered == load_more_offered(ss5, predictions)
                    rendered == MovieButtons(ss4, predictions)
                        \cup (IF offered THEN {<<"load_more">>} ELSE {})
                    notice == IF offered THEN {}
                              ELSE IF predictions.n = MaxLimit
                              THEN {"Showing maximum 100 movies"}
                              ELSE IF predictions.n < ss5.current_limit
                              THEN {"All movies loaded"}
                              ELSE {}
                IN  IF meta.call.ret
                    THEN Handled(Run(ss5, requests, {}, {}, TRUE))
                    ELSE IF offered /\ click.kind = "load_more"
                    THEN Handled(Run(Put(ss5, "current_limit",
                                         load_more(ss5.current_limit)),
                                     requests, {}, {}, TRUE))
                    ELSE IF rerunClicked
                    THEN Handled(Run(ss5, requests, meta.call.errors \cup notice,
                                     rendered, FALSE))
                    ELSE Run(ss5, requests, notice, rendered, FALSE)

\* The answers the API can give to the requests of one prediction run: the
\* GET fails, or succeeds with some rows; the PATCH answers matter only to a
\* run that handles a rerun click.
ApiAnswer(g, n, t, p, s) ==
    [get |-> g, size |-> n, tracked |-> t, patch |-> p, success |-> s]

PredictionApi(click) ==
    {ApiAnswer("Timeout", "none", {}, "ok", TRUE),
     ApiAnswer("ok", "none", {}, "ok", TRUE)}
    \cup {ApiAnswer("ok", n, t, p, s) :
            n \in {"few", "full"}, t \in {{}, {"tt1"}},
            p \in IF click.kind = "rerun" THEN {"ok", "HTTPError"} ELSE {"ok"},
            s \in IF click.kind = "rerun" THEN BOOLEAN ELSE {TRUE}}

InitPrediction ==
    /\ env = PageEnv
    /\ config = Config_init(PageEnv)
    /\ training = <<>>
    /\ http = <<>>
    /\ ui = {}
    /\ act = NoAction
    /\ session = <<>>
    /\ widgets = [cm |-> "all", sort |-> "pred-proba-desc", anomalous |-> "any"]
    /\ screen = {}
    /\ NoMedia

\* A user interaction with the prediction page: the script runs with the
\* widget values `w` and the pressed button `click`; when that run ends in
\* st.rerun() the script runs once more, without a click.
PredictionInteraction(name, w, click) ==
    \E api1 \in PredictionApi(click) :
      \E r1 \in {prediction_main(config, session, w, click, api1)} :
        \E r \in IF r1.rerun
                  THEN {[r2 EXCEPT !.http = r1.http \o r2.http] :
                          r2 \in {prediction_main(config, r1.session, w, NoClick, api2) :
                                    api2 \in PredictionApi(NoClick)}}
                  ELSE {r1} :
            /\ session' = r.session
            /\ http' = r.http
            /\ ui' = r.ui
            /\ screen' = r.screen
            /\ widgets' = w
            /\ act' = [name |-> name, page |-> "prediction", click |-> click,
                       cm |-> w.cm, anomalous |-> w.anomalous,
                       prev_cm |-> Get(session, "current_filter", w.cm),
                       prev_anomalous |->
                           Get(session, "current_anomalous_filter", w.anomalous),
                       handled |-> r1.handled,
                       success |-> api1.success]
            /\ UNCHANGED <<env, config, training, mediaVars>>

\* The page is opened or reloaded.
OpenPrediction == PredictionInteraction("open", widgets, NoClick)

\* "Filter by Confusion Matrix Value" selectbox (prediction.py:527)
SelectCmValue ==
    \E v \in (CmFilters \cap CmChoices) \ {widgets.cm} :
        PredictionInteraction("select_cm", [widgets EXCEPT !.cm = v], NoClick)

\* "Sort by Confidence" selectbox (prediction.py:541)
SelectSort ==
    \E v \in SortSelections \ {widgets.sort} :
        PredictionInteraction("select_sort", [widgets EXCEPT !.sort = v], NoClick)

\* "Anomalous" selectbox (prediction.py:558)
SelectAnomalous ==
    \E v \in (AnomalousFilters \cap AnomalousChoices) \ {widgets.anomalous} :
        PredictionInteraction("select_anomalous",
                              [widgets EXCEPT !.anomalous = v], NoClick)

\* "Load More" button (prediction.py:789), when the last run rendered it.
ClickLoadMore ==
    /\ <<"load_more">> \in screen
    /\ PredictionInteraction("load_more", widgets, [kind |-> "load_more"])

\* "rerun" button of a listed movie (prediction.py:720)
ClickRerun ==
    \E b \in screen :
        /\ b[1] = "rerun"
        /\ PredictionInteraction("rerun", widgets,
                                 [kind |-> "rerun", imdb_id |-> b[2]])

NextPrediction ==
    \/ OpenPrediction
    \/ SelectCmValue
    \/ SelectSort
    \/ SelectAnomalous
    \/ ClickLoadMore
    \/ ClickRerun

SpecPrediction == InitPrediction /\ [][NextPrediction]_vars

(***************************************************************************)
(* C11                                                                     *)
(***************************************************************************)

LimitValues == {20, 40, 60, 80, 100}

\* current_limit once main() has initialised it, and the "Load More" button
\* of the page as last rendered.
C11_LimitInRange ==
    /\ "current_limit" \in DOMAIN session => session.current_limit \in LimitValues
    /\ <<"load_more">> \in screen =>
          /\ session.current_limit < 100
          /\ http[Len(http)].method = "GET"
          /\ http[Len(http)].outcome = "ok"
          /\ session.predictions.n = session.current_limit

\* A handled "Load More" click raises current_limit by 20, to 100 at most.
C11_LoadMoreStep ==
    (act'.name = "load_more" /\ act'.handled) =>
        /\ session'.current_limit = session.current_limit + 20
        /\ session'.current_limit <= 100

\* C11: on the prediction page current_limit is always one of 20, 40, 60, 80
\* and 100; "Load More" raises it by 20 and never above 100, and is offered
\* only when current_limit < 100 and the last response held exactly
\* current_limit movies.
C11_LimitBounded == []C11_LimitInRange /\ [][C11_LoadMoreStep]_vars

\* "Load More" took the limit to 100: the 100 movies are shown and the button
\* is no longer offered.
C11_Witness ==
    /\ act.name = "load_more" /\ act.handled
    /\ session.current_limit = 100
    /\ session.predictions.n = 100
    /\ <<"load_more">> \notin screen

(***************************************************************************)
(* C8                                                                      *)
(***************************************************************************)

\* C8: clicking 'rerun' for an item of the prediction page sends one PATCH to
\* that item's rerun-metadata endpoint; when the response reports success the
\* imdb_id is in session rerun_ids afterwards.
C8_RerunSent ==
    (act.name = "rerun" /\ act.handled) =>
        /\ Cardinality({i \in DOMAIN http : http[i].method = "PATCH"}) = 1
        /\ \A i \in DOMAIN http :
              (http[i].method = "PATCH" /\ http[i].outcome = "ok"
                  /\ act.success) =>
                  act.click.imdb_id \in Get(session, "rerun_ids", {})

(***************************************************************************)
(* C10                                                                     *)
(***************************************************************************)

\* C10: whenever the cm_value or anomalous filter selected on the prediction
\* page differs from the one used in the previous run, current_limit is set
\* back to 20 before the data for the new filter is fetched.
C10_LimitReset ==
    (act.name \in {"select_cm", "select_anomalous"}
        /\ (act.cm # act.prev_cm \/ act.anomalous # act.prev_anomalous)) =>
        /\ http # <<>>
        /\ \A i \in DOMAIN http : http[i].params.limit = InitialLimit
        /\ session.current_limit = InitialLimit

(***************************************************************************)
(* The API's media table                                                   *)
(***************************************************************************)

\* The media items the API holds, in the order it lists them.
HashOrder == <<"h1">>
Hashes == {HashOrder[i] : i \in DOMAIN HashOrder}
MediaTitle == "t"

Row(p, e, r) == [pipeline_status |-> p, error_status |-> e, rejection_status |-> r]

\* The rows an item takes in the model; the user of the edit views selects
\* the values of one of them.  Two rows differ in one, two or three fields.
MediaRows ==
    {Row("ingested", FALSE, "unfiltered"),
     Row("paused", FALSE, "unfiltered"),
     Row("ingested", TRUE, "accepted")}

\* An element of the "data" list of a media/ response.
Item(hash, row) ==
    [hash |-> hash, media_title |-> MediaTitle,
     pipeline_status |-> row.pipeline_status,
     error_status |-> row.error_status,
     rejection_status |-> row.rejection_status]

\* Entries the API may hold besides those the model follows: enough of them
\* to fill a page of the list, listed after the followed ones.
FurtherHashes == [i \in 1..20 |-> "f" \o ToString(i)]

\* Whether the API lists `item` for the query parameters `params`.
Matches(item, params) ==
    /\ "hash" \in DOMAIN params => item.hash = params.hash
    /\ "media_title" \in DOMAIN params => item.media_title = params.media_title
    /\ "error_status" \in DOMAIN params =>
           item.error_status = (params.error_status = "true")
    /\ "pipeline_status" \in DOMAIN params =>
           item.pipeline_status = params.pipeline_status

\* The "data" list the API answers GET media/ with.
ApiMediaList(table, params) ==
    LET order == SelectSeq(HashOrder \o FurtherHashes, LAMBDA h : h \in DOMAIN table)
        all == [i \in DOMAIN order |-> Item(order[i], table[order[i]])]
        matching == SelectSeq(all, LAMBDA item : Matches(item, params))
        first == Get(params, "offset", 0) + 1
        last == Min(Len(matching), first - 1 + Get(params, "limit", Len(matching)))
    IN  IF first > last THEN <<>> ELSE SubSeq(matching, first, last)

\* The API applies an accepted PATCH media/{hash}/pipeline: the fields the
\* payload carries replace the row's.
ApplyMediaPatch(table, request) ==
    IF request.outcome # "ok" \/ request.json.hash \notin DOMAIN table THEN table
    ELSE [table EXCEPT ![request.json.hash] =
            [f \in DOMAIN @ |->
                IF f \in DOMAIN request.json THEN request.json[f] ELSE @[f]]]

\* Config.media_endpoint
media_endpoint(c) == base_url(c) \o "media/"

\* Python truthiness of an optional list or dict: None and empty are false.
Truthy(o) == ~IsNone(o) /\ Val(o) # <<>>

(***************************************************************************)
(* pages/media.py: the functions that talk to the API                      *)
(***************************************************************************)

\* {"hash": hash_id, **updates}
patch_payload(hash_id, updates) ==
    [k \in {"hash"} \cup DOMAIN updates |->
        IF k \in DOMAIN updates THEN updates[k] ELSE hash_id]

\* media.py make_patch_call: the session state is part of what it returns
make_patch_call_media(c, ss, hash_id, updates, outcome) ==
    LET payload == patch_payload(hash_id, updates)
        endpoint == get_media_pipeline_endpoint(c, hash_id)
    IN  [call |-> Call(<<Request("PATCH", endpoint, payload, outcome)>>,
                       outcome = "ok", {}),
         session |-> Put(Put(ss, "last_api_call", "PATCH " \o endpoint),
                         "last_api_payload", payload)]

ErrorCountLimit == 1000

\* media.py fetch_error_count: 0 when the request fails
fetch_error_count(c, api) ==
    LET params == [limit |-> ErrorCountLimit, error_status |-> "true"]
        req == GetRequest(media_endpoint(c), params, api.count)
    IN  IF api.count = "ok"
        THEN Call(<<req>>, Len(ApiMediaList(api.table, params)), {})
        ELSE Call(<<req>>, 0, {})

\* fetch_media_data, lines 201-215: the parameters every request carries
base_params(limit, offset, search_term, search_type, error_status) ==
    LET paging == [limit |-> limit, offset |-> offset, sort_by |-> "updated_at",
                   sort_order |-> "desc"]
        searched == IF Falsy(search_term) THEN paging
                    ELSE IF search_type = "hash"
                    THEN Put(paging, "hash", Val(search_term))
                    ELSE Put(paging, "media_title", Val(search_term))
    IN  IF IsNone(error_status) THEN searched
        ELSE Put(searched, "error_status",
                 IF Val(error_status) THEN "true" ELSE "false")

\* item.get("updated_at", ""): timestamps are the numbers 1, 2, ... in their
\* order, and the empty string, smaller than every timestamp, is 0.
updated_at_key(item) == Get(item, "updated_at", 0)

RECURSIVE merge_items_keeping_duplicates(_, _)
merge_items_keeping_duplicates(merged, data) ==
    IF data = <<>> THEN merged
    ELSE merge_items_keeping_duplicates(
             [all_items |-> Append(merged.all_items, Head(data)),
              seen_hashes |-> merged.seen_hashes \cup {Head(data).hash}],
             Tail(data))

\* fetch_media_data, lines 230-233: the items of one response are appended
\* unless their hash was seen before.
RECURSIVE merge_items(_, _)
merge_items(merged, data) ==
    IF data = <<>> THEN merged
    ELSE LET item == Head(data)
         IN  merge_items(
                 IF item.hash \notin merged.seen_hashes
                 THEN [all_items |-> Append(merged.all_items, item),
                       seen_hashes |-> merged.seen_hashes \cup {item.hash}]
                 ELSE merged,
                 Tail(data))

\* list.sort(key=..., reverse=True): descending and stable.
RECURSIVE sort_by_updated_at(_)
sort_by_updated_at(items) ==
    IF items = <<>> THEN <<>>
    ELSE LET sorted == sort_by_updated_at(SubSeq(items, 1, Len(items) - 1))
             item == items[Len(items)]
             before == SelectSeq(sorted,
                          LAMBDA x : updated_at_key(x) >= updated_at_key(item))
             after == SelectSeq(sorted,
                          LAMBDA x : updated_at_key(x) < updated_at_key(item))
         IN  before \o <<item>> \o after

\* all_items[:limit]
first_items(items, limit) == SubSeq(items, 1, Min(limit, Len(items)))

\* fetch_media_data, lines 236-237: what the merged responses return
merged_result(all_items, limit) == first_items(sort_by_updated_at(all_items), limit)

\* A request of the loop and the requests after it.
then_requests(req, rest) == Call(<<req>> \o rest.requests, rest.ret, rest.errors)

RECURSIVE fetch_each_status(_, _, _, _, _, _)
RECURSIVE fetch_status(_, _, _, _, _, _, _)
\* fetch_media_data, lines 222-233: the request for the i-th status
fetch_status(c, base, pipeline_statuses, i, merged, api, params) ==
    IF api.list[i] # "ok"
    THEN Call(<<GetRequest(media_endpoint(c), params, api.list[i])>>, None,
              {"Failed to fetch media data: " \o api.list[i]})
    ELSE then_requests(GetRequest(media_endpoint(c), params, api.list[i]),
             fetch_each_status(c, base, pipeline_statuses, i + 1,
                 merge_items(merged, ApiMediaList(api.table, params)), api))

\* fetch_media_data, lines 221-233: the requests of the loop over the
\* statuses from the i-th on; the loop ends at the first request that fails.
fetch_each_status(c, base, pipeline_statuses, i, merged, api) ==
    IF i > Len(pipeline_statuses)
    THEN Call(<<>>, Some(merged.all_items), {})
    ELSE fetch_status(c, base, pipeline_statuses, i, merged, api,
             Put(base, "pipeline_status", pipeline_statuses[i]))

\* fetch_media_data, lines 234-237: the loop's items, sorted and cut
return_merged(loop, limit) ==
    IF IsNone(loop.ret) THEN loop
    ELSE Call(loop.requests, Some(merged_result(Val(loop.ret), limit)), {})

\* fetch_media_data, lines 242-248: the single request
fetch_once(c, params, api) ==
    IF api.list[1] = "ok"
    THEN Call(<<GetRequest(media_endpoint(c), params, api.list[1])>>,
              Some(ApiMediaList(api.table, params)), {})
    ELSE Call(<<GetRequest(media_endpoint(c), params, api.list[1])>>,
              None, {"Failed to fetch media data: " \o api.list[1]})

\* fetch_media_data, lines 218-248, with the parameters of lines 201-215
fetch_with(c, base, limit, pipeline_statuses, api) ==
    IF Len(pipeline_statuses) > 1
    THEN return_merged(
             fetch_each_status(c, base, pipeline_statuses, 1,
                 [all_items |-> <<>>, seen_hashes |-> {}], api),
             limit)
    ELSE fetch_once(c,
             IF Len(pipeline_statuses) = 1
             THEN Put(base, "pipeline_status", pipeline_statuses[1])
             ELSE base,
             api)

\* media.py fetch_media_data: the "data" list of what it returns, or None
fetch_media_data(c, limit, offset, search_term, search_type, error_status, pipeline_statuses, api) ==
    fetch_with(c,
        base_params(limit, offset, search_term, search_type, error_status),
        limit, pipeline_statuses, api)

(***************************************************************************)
(* fetch_media_data, request by request                                    *)
(*                                                                         *)
(* The function is followed through its requests: a step is one request    *)
(* and the answer the API gives to it, whatever it lists.                  *)
(***************************************************************************)

FetchHashes == {"h1", "h2"}
MaxData == 2

\* Items of a response: with a newer or an older timestamp, or without one.
FetchItems ==
    {[hash |-> "h1", updated_at |-> 1], [hash |-> "h1", updated_at |-> 2],
     [hash |-> "h2", updated_at |-> 2], [hash |-> "h2"]}
DataLists == UNION {[1..n -> FetchItems] : n \in 0..MaxData}

FetchAnswers ==
    {[outcome |-> "ok", data |-> d] : d \in DataLists}
    \cup {[outcome |-> o, data |-> <<>>] : o \in GetOutcomes \ {"ok"}}

\* The arguments fetch_media_data is called with.
LimitChoices == {1, 2}
SearchChoices ==
    {[search_term |-> None, search_type |-> "title", error_status |-> None],
     [search_term |-> Some("t"), search_type |-> "title", error_status |-> Some(TRUE)],
     [search_term |-> Some("h1"), search_type |-> "hash", error_status |-> None]}
StatusLists ==
    {<<>>, <<"downloading">>, <<"downloading", "downloaded">>,
     <<"downloading", "downloaded", "transferred">>}

Range(seq) == {seq[i] : i \in DOMAIN seq}

InitFetch ==
    /\ env = PageEnv
    /\ config = Config_init(PageEnv)
    /\ training = <<>>
    /\ http = <<>>
    /\ ui = {}
    /\ act = NoAction
    /\ NoPage
    /\ NoMedia

Fetching == act.name = "fetch_media_data" /\ ~act.done

FetchBase ==
    base_params(act.limit, act.offset, act.search_term, act.search_type,
                act.error_status)

FrameFetch == UNCHANGED <<env, config, training, pageVars, mediaVars>>

\* fetch_media_data is called (lines 198-215).
CallFetchMediaData ==
    /\ act.name = "fetch_media_data" => act.done
    /\ \E limit \in LimitChoices, search \in SearchChoices,
          pipeline_statuses \in StatusLists :
          act' = [name |-> "fetch_media_data", limit |-> limit, offset |-> 0,
                  search_term |-> search.search_term,
                  search_type |-> search.search_type,
                  error_status |-> search.error_status,
                  pipeline_statuses |-> pipeline_statuses, i |-> 1,
                  merged |-> [all_items |-> <<>>, seen_hashes |-> {}],
                  received |-> {}, done |-> FALSE, ret |-> None]
    /\ http' = <<>>
    /\ ui' = {}
    /\ FrameFetch

\* One iteration of the loop over the statuses (lines 221-233).
GetForStatus ==
    /\ Fetching
    /\ Len(act.pipeline_statuses) > 1
    /\ act.i <= Len(act.pipeline_statuses)
    /\ \E answer \in FetchAnswers :
          /\ http' = Append(http,
                 GetRequest(media_endpoint(config),
                     Put(FetchBase, "pipeline_status", act.pipeline_statuses[act.i]),
                     answer.outcome))
          /\ IF answer.outcome = "ok"
             THEN /\ act' = [act EXCEPT !.i = @ + 1,
                                !.merged = merge_items(@, answer.data),
                                !.received = @ \cup Range(answer.data)]
                  /\ ui' = ui
             ELSE /\ act' = [act EXCEPT !.done = TRUE, !.ret = None]
                  /\ ui' = {"Failed to fetch media data: " \o answer.outcome}
    /\ FrameFetch

\* The loop is over: sort, cut and return (lines 235-237).
ReturnMerged ==
    /\ Fetching
    /\ Len(act.pipeline_statuses) > 1
    /\ act.i > Len(act.pipeline_statuses)
    /\ act' = [act EXCEPT !.done = TRUE,
                  !.ret = Some(merged_result(act.merged.all_items, act.limit))]
    /\ UNCHANGED <<http, ui>>
    /\ FrameFetch

\* At most one status: a single request, answered as is (lines 239-249).
GetOnce ==
    /\ Fetching
    /\ Len(act.pipeline_statuses) <= 1
    /\ \E answer \in FetchAnswers :
          /\ http' = <<GetRequest(media_endpoint(config),
                          IF Len(act.pipeline_statuses) = 1
                          THEN Put(FetchBase, "pipeline_status",
                                   act.pipeline_statuses[1])
                          ELSE FetchBase,
                          answer.outcome)>>
          /\ IF answer.outcome = "ok"
             THEN /\ act' = [act EXCEPT !.done = TRUE, !.ret = Some(answer.data),
                                !.received = Range(answer.data)]
                  /\ ui' = ui
             ELSE /\ act' = [act EXCEPT !.done = TRUE, !.ret = None]
                  /\ ui' = {"Failed to fetch media data: " \o answer.outcome}
    /\ FrameFetch

NextFetch ==
    \/ CallFetchMediaData
    \/ GetForStatus
    \/ ReturnMerged
    \/ GetOnce

SpecFetch == InitFetch /\ [][NextFetch]_vars

(***************************************************************************)
(* C9                                                                      *)
(***************************************************************************)

\* A call with more than one status that has returned.
MergedCallReturned ==
    /\ act.name = "fetch_media_data"
    /\ act.done
    /\ Len(act.pipeline_statuses) > 1

\* Every request issued is the one for its status: same limit, offset, search
\* and error_status parameters, and the status at its position in the list.
C9_RequestsInOrder ==
    \A i \in DOMAIN http :
        /\ i <= Len(act.pipeline_statuses)
        /\ http[i].method = "GET"
        /\ http[i].url = media_endpoint(config)
        /\ http[i].params =
              Put(FetchBase, "pipeline_status", act.pipeline_statuses[i])

\* What the claim says of a returned list.
C9_MergedList(items) ==
    /\ \A i, j \in DOMAIN items : items[i].hash = items[j].hash => i = j
    /\ \A i \in DOMAIN items : items[i] \in act.received
    /\ \A i, j \in DOMAIN items :
          i < j => updated_at_key(items[i]) >= updated_at_key(items[j])
    /\ Len(items) <= act.limit

MediaRun(ss, ch, requests, messages, rendered, rerun) ==
    [session |-> ss, cache |-> ch, http |-> requests, ui |-> messages,
     screen |-> rendered, rerun |-> rerun, handled |-> FALSE]

\* The current values an edit view reads from its item (media.py:401-403,
\* media_pipeline.py:100-102).
current_values(item) ==
    Row(Get(item, "pipeline_status", "ingested"),
        Get(item, "error_status", FALSE),
        Get(item, "rejection_status", "unfiltered"))

\* updates[field] = new[field] when the selected value differs
update_if_changed(updates, field, current, new) ==
    IF new[field] # current[field] THEN Put(updates, field, new[field])
    ELSE updates

updates_of_every_field(current, new) ==
    [pipeline_status |-> new.pipeline_status, error_status |-> new.error_status,
     rejection_status |-> new.rejection_status]

\* media.py:542-548: the fields whose selected value differs
updates_media(current, new) ==
    update_if_changed(
        update_if_changed(
            update_if_changed(<<>>, "pipeline_status", current, new),
            "error_status", current, new),
        "rejection_status", current, new)

\* media_pipeline.py:182-188
updates_media_pipeline(current, new) ==
    update_if_changed(
        update_if_changed(
            update_if_changed(<<>>, "pipeline_status", current, new),
            "error_status", current, new),
        "rejection_status", current, new)

FocusedButtons == {<<"back", 0>>, <<"submit", 0>>}

\* media.py:550-563: the Submit handler once `updates` is built (`patch` is
\* what make_patch_call does when it is called).
submit_media(ss, ch, updates, patch) ==
    IF DOMAIN updates = {}
    THEN Handled(MediaRun(ss, ch, <<>>, {"No changes detected"},
                          FocusedButtons, FALSE))
    ELSE IF patch.call.ret
    THEN Handled(MediaRun(Put(patch.session, "selected_item", None), ch,
                          patch.call.requests, {}, {}, TRUE))
    ELSE Handled(MediaRun(patch.session, ch, patch.call.requests,
                          {"Failed to update pipeline status!"},
                          FocusedButtons, FALSE))

\* media.py display_focused_item: the edit view of the selected item.
display_focused_item_media(c, ss, ch, item, click, api) ==
    IF click.kind = "back"
    THEN Handled(MediaRun(Put(ss, "selected_item", None), ch, <<>>, {}, {}, TRUE))
    ELSE IF click.kind = "submit"
    THEN submit_media(ss, ch,
             updates_media(current_values(item), click.new),
             make_patch_call_media(c, ss, item.hash,
                 updates_media(current_values(item), click.new), api.patch))
    ELSE MediaRun(ss, ch, <<>>, {}, FocusedButtons, FALSE)

PageSize == 20

InTransmission == <<"downloading", "downloaded", "transferred">>

Max(a, b) == IF a > b THEN a ELSE b

\* media.py:672-686
media_session_defaults(ss) ==
    SetDefault(SetDefault(SetDefault(SetDefault(SetDefault(SetDefault(
    SetDefault(ss,
        "selected_item", None),
        "search_term", ""),
        "search_type", "title"),
        "filter_errors", FALSE),
        "filter_in_transmission", FALSE),
        "filter_pipeline_status", "All"),
        "page_offset", 0)

\* media.py:705-710: what the popover says about the count
error_popover(error_count) ==
    IF error_count > 0 THEN {ToString(error_count) \o " items with errors"}
    ELSE {"No errors"}

\* media.py:801-807
pipeline_statuses_of(ss) ==
    IF ss.filter_pipeline_status # "All" THEN <<ss.filter_pipeline_status>>
    ELSE IF ss.filter_in_transmission THEN InTransmission
    ELSE <<>>

\* The characters of a text, as far as they matter in a URL: "&" and "="
\* are characters of their own, any other stretch of text is one token.
Chars(text) ==
    IF text = "" THEN <<>>
    ELSE IF text = "a&b" THEN <<"a", "&", "b">>
    ELSE <<text>>

\* str(value) of a query parameter: limit and offset are integers, every
\* other value is a string.
ParamText(name, value) ==
    IF name \in {"limit", "offset"} THEN <<ToString(value)>> ELSE Chars(value)

\* "&".join([f"{k}={v}" for k, v in params.items()]) for the dict whose
\* items, in insertion order, are `pairs`
RECURSIVE param_string(_)
param_string(pairs) ==
    IF pairs = <<>> THEN <<>>
    ELSE <<pairs[1][1], "=">> \o ParamText(pairs[1][1], pairs[1][2])
            \o (IF Len(pairs) = 1 THEN <<>> ELSE <<"&">> \o param_string(Tail(pairs)))

\* f"{endpoint}?{param_string}"
api_url(endpoint, pairs) == <<endpoint, "?">> \o param_string(pairs)

\* media.py:785-799: the dict `params` built for the displayed URL
media_display_params(ss, w) ==
    <<<<"limit", PageSize>>, <<"offset", ss.page_offset>>,
      <<"sort_by", "updated_at">>, <<"sort_order", "desc">>>>
    \o (IF w.search_input = "" THEN <<>>
        ELSE IF w.search_type_select = "hash" THEN <<<<"hash", w.search_input>>>>
        ELSE <<<<"media_title", w.search_input>>>>)
    \o (IF ss.filter_errors THEN <<<<"error_status", "true">>>> ELSE <<>>)

\* media.py:809-816: the URLs shown by st.code, one line each
media_api_urls(c, ss, w, pipeline_statuses) ==
    IF pipeline_statuses # <<>>
    THEN {<<"api_url", i,
            api_url(media_endpoint(c),
                media_display_params(ss, w)
                    \o <<<<"pipeline_status", pipeline_statuses[i]>>>>)>> :
             i \in DOMAIN pipeline_statuses}
    ELSE {<<"api_url", 1, api_url(media_endpoint(c), media_display_params(ss, w))>>}

\* media.py make_soft_delete_call, make_promote_call and make_finish_call:
\* a PATCH without body; only status 200 makes it return True.
make_call_without_body(c, hash_id, action, outcome) ==
    Call(<<Request("PATCH", base_url(c) \o "media/" \o hash_id \o "/" \o action,
                   <<>>, outcome)>>,
         outcome = "ok", {})

make_soft_delete_call(c, hash_id, outcome) ==
    make_call_without_body(c, hash_id, "soft_delete", outcome)

make_promote_call(c, hash_id, outcome) ==
    make_call_without_body(c, hash_id, "promote", outcome)

make_finish_call(c, hash_id, outcome) ==
    make_call_without_body(c, hash_id, "finish", outcome)

\* media.py:331-335: what "re-ingest" sets
reingest_updates == Row("ingested", FALSE, "unfiltered")

ItemActions == {"reingest", "promote", "finish", "delete"}

\* media.py:329-361: the call the handler of an item's button makes, with the
\* session state make_patch_call leaves
item_action_call(c, ss, item, kind, outcome) ==
    IF kind = "reingest"
    THEN make_patch_call_media(c, ss, item.hash, reingest_updates, outcome)
    ELSE [call |-> IF kind = "promote" THEN make_promote_call(c, item.hash, outcome)
                   ELSE IF kind = "finish" THEN make_finish_call(c, item.hash, outcome)
                   ELSE make_soft_delete_call(c, item.hash, outcome),
          session |-> ss]

item_action_rerun_always(done) == TRUE

\* media.py:336-361: "if success: st.rerun()"
item_action_rerun(done) == done.call.ret

\* media.py:322-361 and 854-873: the buttons of the list
list_buttons(ss, items) ==
    {<<kind, i>> : kind \in {"edit"} \cup ItemActions, i \in DOMAIN items}
        \cup (IF ss.page_offset > 0 THEN {<<"previous", 0>>} ELSE {})
        \cup (IF Len(items) = PageSize THEN {<<"next", 0>>} ELSE {})

list_info(ss, count, items) ==
    error_popover(count.ret)
        \cup {"showing " \o ToString(ss.page_offset + 1) \o "-"
                 \o ToString(ss.page_offset + Len(items))}

\* media.py:329-361: the handler of an item's button has made its call
item_action_done(ss, ch, requests, count, items, kind, done, shown) ==
    IF item_action_rerun(done)
    THEN Handled(MediaRun(done.session, ch, requests \o done.call.requests,
                          {}, {}, TRUE))
    ELSE Handled(MediaRun(done.session, ch, requests \o done.call.requests,
             list_info(ss, count, items) \cup {"failed to " \o kind},
             list_buttons(ss, items) \cup shown, FALSE))

\* media.py:822-873: main() from the answer `data` of fetch_media_data on;
\* `shown` are the URLs displayed before the fetch.
media_listing(c, ss, ch, click, count, data, api, shown) ==
    IF IsNone(data.ret)
    THEN MediaRun(ss, ch, count.requests \o data.requests,
                  error_popover(count.ret) \cup data.errors, shown, FALSE)
    ELSE
    LET items == Val(data.ret)
        requests == count.requests \o data.requests
        previous == ss.page_offset > 0
        next == Len(items) = PageSize
    IN  IF items = <<>>
        THEN MediaRun(ss, ch, requests,
                      error_popover(count.ret) \cup {"0 media items found"},
                      shown, FALSE)
        ELSE IF click.kind = "edit" /\ click.idx \in DOMAIN items
        THEN Handled(MediaRun(Put(ss, "selected_item", Some(items[click.idx])),
                              ch, requests, {}, {}, TRUE))
        ELSE IF click.kind \in ItemActions /\ click.idx \in DOMAIN items
        THEN item_action_done(ss, ch, requests, count, items, click.kind,
                 item_action_call(c, ss, items[click.idx], click.kind, api.patch),
                 shown)
        ELSE IF click.kind = "previous" /\ previous
        THEN Handled(MediaRun(
                 Put(ss, "page_offset", Max(0, ss.page_offset - PageSize)),
                 ch, requests, {}, {}, TRUE))
        ELSE IF click.kind = "next" /\ next
        THEN Handled(MediaRun(Put(ss, "page_offset", ss.page_offset + PageSize),
                              ch, requests, {}, {}, TRUE))
        ELSE MediaRun(ss, ch, requests, list_info(ss, count, items),
                      list_buttons(ss, items) \cup shown, FALSE)

\* media.py:694-820: main() from the answer `count` of fetch_error_count on
media_filters(c, ss, ch, w, click, count, api) ==
    IF w.filter_errors # ss.filter_errors
    THEN MediaRun(Put(Put(ss, "filter_errors", w.filter_errors), "page_offset", 0),
                  ch, count.requests, {}, {}, TRUE)
    ELSE IF w.filter_in_transmission # ss.filter_in_transmission
    THEN MediaRun(Put(Put(ss, "filter_in_transmission", w.filter_in_transmission),
                      "page_offset", 0),
                  ch, count.requests, {}, {}, TRUE)
    ELSE IF w.filter_pipeline_status # ss.filter_pipeline_status
    THEN MediaRun(
             IF w.filter_pipeline_status # "All"
             THEN Put(Put(Put(ss, "filter_pipeline_status",
                              w.filter_pipeline_status), "page_offset", 0),
                      "filter_in_transmission", FALSE)
             ELSE Put(Put(ss, "filter_pipeline_status", w.filter_pipeline_status),
                      "page_offset", 0),
             ch, count.requests, {}, {}, TRUE)
    ELSE IF click.kind \in {"refresh", "enter"}
    THEN Handled(MediaRun(ss, ch, count.requests, {}, {}, TRUE))
    ELSE media_listing(c, ss, ch, click, count,
             fetch_media_data(c, PageSize, ss.page_offset,
                 IF w.search_input # "" THEN Some(w.search_input) ELSE None,
                 w.search_type_select,
                 IF ss.filter_errors THEN Some(TRUE) ELSE None,
                 pipeline_statuses_of(ss), api),
             api, media_api_urls(c, ss, w, pipeline_statuses_of(ss)))

\* media.py:688-694: main() once the session state has its defaults
media_view(c, ss, ch, w, click, api) ==
    IF Truthy(ss.selected_item)
    THEN display_focused_item_media(c, ss, ch, Val(ss.selected_item), click, api)
    ELSE media_filters(c, ss, ch, w, click, fetch_error_count(c, api), api)

\* One script run of media.py main().
media_main(c, ss0, ch, w, click, api) ==
    media_view(c, media_session_defaults(ss0), ch, w, click, api)

\* media_pipeline.py make_patch_call
make_patch_call_media_pipeline(c, hash_id, updates, outcome) ==
    Call(<<Request("PATCH", get_media_pipeline_endpoint(c, hash_id),
                   patch_payload(hash_id, updates), outcome)>>,
         outcome = "ok", {})

\* media_pipeline.py:56-83: the body of search_media
search_media_body(c, params, api, table) ==
    IF api.get = "ok"
    THEN Call(<<GetRequest(media_endpoint(c), params, api.get)>>,
              Some(ApiMediaList(table, params)), {})
    ELSE Call(<<GetRequest(media_endpoint(c), params, api.get)>>,
              None, {"Failed to search media: " \o api.get})

\* st.cache_data: a call whose key has an entry that has not expired is
\* answered by the entry, which also shows again what the stored call showed;
\* otherwise the function body runs and what it returns is stored.
cached_call(ch, key, call) ==
    IF key \in DOMAIN ch
    THEN [call |-> Call(<<>>, ch[key].ret, ch[key].errors), cache |-> ch]
    ELSE [call |-> call,
          cache |-> Put(ch, key, [ret |-> call.ret, errors |-> call.errors])]

\* media_pipeline.py search_media, behind st.cache_data(ttl=60); _config is
\* not part of the key.
search_media(c, ch, search_term, search_type, api, table) ==
    cached_call(ch, <<"search_media", search_term, search_type>>,
        search_media_body(c,
            IF search_type = "hash" THEN [hash |-> search_term]
            ELSE [media_title |-> search_term],
            api, table))

\* media_pipeline.py:195-211: a successful PATCH is followed by the refresh
\* of the item, st.cache_data.clear() and st.rerun().
refresh_after_patch(ss, patch, refreshed) ==
    Handled(MediaRun(
        IF Truthy(refreshed.call.ret)
        THEN Put(ss, "selected_item", Some(Val(refreshed.call.ret)[1]))
        ELSE ss,
        <<>>, patch.requests \o refreshed.call.requests, {}, {}, TRUE))

\* media_pipeline.py:190-216: the Submit handler once `updates` is built
\* (`patch` is what make_patch_call does when it is called).
submit_media_pipeline(c, ss, ch, item, updates, patch, api, messages) ==
    IF DOMAIN updates = {}
    THEN Handled(MediaRun(ss, ch, <<>>, messages \cup {"No changes detected"},
                          FocusedButtons, FALSE))
    ELSE IF patch.ret
    THEN refresh_after_patch(ss, patch,
             search_media(c, ch, item.hash, "hash", api,
                          ApplyMediaPatch(api.table, patch.requests[1])))
    ELSE Handled(MediaRun(ss, ch, patch.requests,
                          messages \cup {"Failed to update pipeline status!"},
                          FocusedButtons, FALSE))

\* media_pipeline.py display_focused_item, followed by the "Back to Results"
\* button of main() (lines 279-281).
display_focused_item_media_pipeline(c, ss, ch, item, click, api, messages) ==
    IF click.kind = "submit"
    THEN submit_media_pipeline(c, ss, ch, item,
             updates_media_pipeline(current_values(item), click.new),
             make_patch_call_media_pipeline(c, item.hash,
                 updates_media_pipeline(current_values(item), click.new),
                 api.patch),
             api, messages)
    ELSE IF click.kind = "back"
    THEN Handled(MediaRun(Put(ss, "selected_item", None), ch, <<>>, {}, {}, TRUE))
    ELSE MediaRun(ss, ch, <<>>, messages, FocusedButtons, FALSE)

\* A run in which the Search button was pressed handled that press, and the
\* requests of the search come first.
after_search(searched, run) ==
    [run EXCEPT !.http = searched.requests \o @,
                !.handled = @ \/ searched.pressed]

\* media_pipeline.py:272-311: main() from the handling of the search on
media_pipeline_view(c, searched, click, api) ==
    IF Truthy(searched.session.selected_item)
    THEN after_search(searched,
             display_focused_item_media_pipeline(c, searched.session,
                 searched.cache, Val(searched.session.selected_item), click, api,
                 searched.messages))
    ELSE IF Truthy(searched.session.search_results)
    THEN IF click.kind = "select"
            /\ click.idx \in DOMAIN Val(searched.session.search_results)
         THEN Handled(MediaRun(
                  Put(searched.session, "selected_item",
                      Some(Val(searched.session.search_results)[click.idx])),
                  searched.cache, searched.requests, {}, {}, TRUE))
         ELSE after_search(searched,
                  MediaRun(searched.session, searched.cache, <<>>,
                      searched.messages
                          \cup {"Found "
                                   \o ToString(Len(Val(searched.session.search_results)))
                                   \o " result(s)"},
                      {<<"select", i>> :
                          i \in DOMAIN Val(searched.session.search_results)},
                      FALSE))
    ELSE after_search(searched,
             MediaRun(searched.session, searched.cache, <<>>, searched.messages,
                      {}, FALSE))

\* media_pipeline.py:256-267: the session state after a search
search_handled(ss, found) ==
    [session |->
        IF Truthy(found.call.ret)
        THEN Put(Put(ss, "search_results", found.call.ret), "selected_item",
                 IF Len(Val(found.call.ret)) = 1
                 THEN Some(Val(found.call.ret)[1]) ELSE None)
        ELSE Put(Put(ss, "search_results", None), "selected_item", None),
     cache |-> found.cache, requests |-> found.call.requests,
     messages |-> found.call.errors, pressed |-> TRUE]

\* media_pipeline.py:250-270: the Search button
search_pressed(c, ss, ch, w, click, api) ==
    IF click.kind = "search" /\ w.search_term # ""
    THEN search_handled(ss,
             search_media(c, ch, w.search_term, w.search_type, api, api.table))
    ELSE [session |-> ss, cache |-> ch, requests |-> <<>>,
          messages |-> IF click.kind = "search"
                       THEN {"Please enter a search term"} ELSE {},
          pressed |-> click.kind = "search"]

\* One script run of media_pipeline.py main().
media_pipeline_main(c, ss0, ch0, w, click, api) ==
    media_pipeline_view(c,
        search_pressed(c,
            SetDefault(SetDefault(ss0, "selected_item", None),
                       "search_results", None),
            ch0, w, click, api),
        click, api)

(***************************************************************************)
(* pages/media-pipeline.py ("Media Pipeline Management"): the script run   *)
(***************************************************************************)

ManagementPage == "media-pipeline"

\* str.strip() on the texts the model's user types.
strip(text) == IF text = " h1" THEN "h1" ELSE text

\* media-pipeline.py:49-60: the body of search_media_by_hash
search_media_by_hash_body(c, hash_value, api) ==
    IF api.get = "ok"
    THEN Call(<<GetRequest(media_endpoint(c), [hash |-> hash_value], api.get)>>,
              Some(ApiMediaList(api.table, [hash |-> hash_value])), {})
    ELSE Call(<<GetRequest(media_endpoint(c), [hash |-> hash_value], api.get)>>,
              None, {"Failed to search by hash: " \o api.get})

\* media-pipeline.py search_media_by_hash, behind st.cache_data(ttl=5)
search_media_by_hash(c, ch, hash_value, api) ==
    cached_call(ch, <<"search_media_by_hash", hash_value>>,
                search_media_by_hash_body(c, hash_value, api))

\* media-pipeline.py:65-76: the body of search_media_by_title
search_media_by_title_body(c, title, api) ==
    IF api.get = "ok"
    THEN Call(<<GetRequest(media_endpoint(c), [media_title |-> title], api.get)>>,
              Some(ApiMediaList(api.table, [media_title |-> title])), {})
    ELSE Call(<<GetRequest(media_endpoint(c), [media_title |-> title], api.get)>>,
              None, {"Failed to search by title: " \o api.get})

\* media-pipeline.py search_media_by_title, behind st.cache_data(ttl=5)
search_media_by_title(c, ch, title, api) ==
    cached_call(ch, <<"search_media_by_title", title>>,
                search_media_by_title_body(c, title, api))

\* media-pipeline.py:236-243: the fields a value was selected for; the
\* selectboxes start on the empty option.
form_updates(new) ==
    LET pipeline == IF new.pipeline_status # ""
                    THEN Put(<<>>, "pipeline_status", new.pipeline_status)
                    ELSE <<>>
        error == IF new.error_status # ""
                 THEN Put(pipeline, "error_status", new.error_status = "true")
                 ELSE pipeline
    IN  IF new.rejection_status # ""
        THEN Put(error, "rejection_status", new.rejection_status)
        ELSE error

\* media-pipeline.py update_pipeline_status
update_pipeline_status(c, hash_id, updates, api) ==
    LET req == Request("PATCH", get_media_pipeline_endpoint(c, hash_id),
                       patch_payload(hash_id, updates), api.patch)
    IN  IF api.patch = "PermissionDenied"
        THEN Call(<<req>>, FALSE, {"Database permission error"})
        ELSE IF api.patch # "ok"
        THEN Call(<<req>>, FALSE,
                  {"Failed to update pipeline status: " \o api.patch})
        ELSE IF ~api.success
        THEN Call(<<req>>, FALSE, {"API Error"})
        ELSE Call(<<req>>, TRUE, {})

UpdateForms(items) == {<<"update_pipeline", items[i].hash>> : i \in DOMAIN items}

\* media-pipeline.py:235-256: the form of an item was submitted
form_submitted(ss, found, items, updates, update) ==
    IF DOMAIN updates = {}
    THEN Handled(MediaRun(ss, found.cache, found.call.requests,
             found.call.errors \cup {"No updates specified"},
             UpdateForms(items), FALSE))
    ELSE IF update.ret
    THEN Handled(MediaRun(ss, <<>>, found.call.requests \o update.requests,
                          {}, {}, TRUE))
    ELSE Handled(MediaRun(ss, found.cache,
             found.call.requests \o update.requests,
             found.call.errors \cup update.errors, UpdateForms(items), FALSE))

\* media-pipeline.py:344-356 with display_media_item: the results and their
\* edit forms; a form is submitted only in a run that renders it.
display_results(c, ss, found, click, api) ==
    IF IsNone(found.call.ret)
    THEN MediaRun(ss, found.cache, found.call.requests, found.call.errors,
                  {}, FALSE)
    ELSE IF Val(found.call.ret) = <<>>
    THEN MediaRun(ss, found.cache, found.call.requests,
                  {"No items found matching your search criteria"}, {}, FALSE)
    ELSE IF /\ click.kind = "update_pipeline"
            /\ \E i \in DOMAIN Val(found.call.ret) :
                   Val(found.call.ret)[i].hash = click.hash
    THEN form_submitted(ss, found, Val(found.call.ret), form_updates(click.new),
             update_pipeline_status(c, click.hash, form_updates(click.new), api))
    ELSE MediaRun(ss, found.cache, found.call.requests,
             {"Found " \o ToString(Len(Val(found.call.ret))) \o " item(s)"},
             UpdateForms(Val(found.call.ret)), FALSE)

\* One script run of media-pipeline.py main(): search_results is None unless
\* one of the two search buttons was pressed in this very run.
media_pipeline_management_main(c, ss, ch, w, click, api) ==
    [display_results(c, ss,
         IF click.kind = "search_hash" /\ w.hash_input # ""
         THEN search_media_by_hash(c, ch, strip(w.hash_input), api)
         ELSE IF click.kind = "search_title" /\ w.title_input # ""
         THEN search_media_by_title(c, ch, strip(w.title_input), api)
         ELSE [call |-> Call(<<>>, None, {}), cache |-> ch],
         click, api)
     EXCEPT !.handled = @ \/ click.kind \in {"search_hash", "search_title"}]

(***************************************************************************)
(* A browser session on the media pages                                    *)
(***************************************************************************)

MediaPages == {"media", "media_pipeline"}

\* What the user types into "Search Term" and picks in "Search By".
SearchInputs ==
    {[search_term |-> "h1", search_type |-> "hash"],
     [search_term |-> "t", search_type |-> "title"],
     [search_term |-> "", search_type |-> "title"]}

\* The widgets of a page when it is opened.
MediaWidgets(ss) ==
    [page |-> "media", search_input |-> "", search_type_select |-> "hash",
     filter_errors |-> Get(ss, "filter_errors", FALSE),
     filter_in_transmission |-> Get(ss, "filter_in_transmission", FALSE),
     filter_pipeline_status |-> Get(ss, "filter_pipeline_status", "All")]
MediaPipelineWidgets ==
    [page |-> "media_pipeline", search_term |-> "", search_type |-> "title"]

MediaAnswer(count, list, get, patch, table) ==
    [count |-> count, list |-> list, get |-> get, patch |-> patch,
     table |-> table]

\* The answers the API can give to the requests of one run of `page`: each
\* request the run can issue succeeds or fails.
MediaApi(page, ss, click, table) ==
    LET patches == IF click.kind = "submit" THEN {"ok", "HTTPError"} ELSE {"ok"}
    IN  IF page = ManagementPage
        THEN {[get |-> get, patch |-> patch, success |-> success, table |-> table] :
                 get \in IF click.kind \in {"search_hash", "search_title"}
                         THEN {"ok", "Timeout"} ELSE {"ok"},
                 patch \in IF click.kind = "update_pipeline"
                           THEN {"ok", "HTTPError", "PermissionDenied"}
                           ELSE {"ok"},
                 success \in IF click.kind = "update_pipeline" THEN BOOLEAN
                             ELSE {TRUE}}
        ELSE IF page = "media_pipeline"
        THEN {MediaAnswer("ok", <<"ok">>, get, patch, table) :
                 get \in IF click.kind \in {"search", "submit"}
                         THEN {"ok", "Timeout"} ELSE {"ok"},
                 patch \in patches}
        ELSE IF Truthy(Get(ss, "selected_item", None))
        THEN {MediaAnswer("ok", <<"ok">>, "ok", patch, table) : patch \in patches}
        ELSE {MediaAnswer(count, <<list, list, list>>, "ok", "ok", table) :
                 count \in {"ok", "ConnectionError"}, list \in {"ok", "Timeout"}}

PageMain(page, c, ss, ch, w, click, api) ==
    IF page = "media" THEN media_main(c, ss, ch, w, click, api)
    ELSE IF page = "media_pipeline"
    THEN media_pipeline_main(c, ss, ch, w, click, api)
    ELSE media_pipeline_management_main(c, ss, ch, w, click, api)

\* The table after the API has served the requests.  Only the PATCH with a
\* body, which carries the item's hash, changes a row of the model's table;
\* what the API does to a row on promote, finish and soft-delete is outside
\* this repository and is left out.
RECURSIVE Served(_, _)
Served(table, requests) ==
    IF requests = <<>> THEN table
    ELSE Served(IF Head(requests).method = "PATCH"
                   /\ "hash" \in DOMAIN Head(requests).json
                THEN ApplyMediaPatch(table, Head(requests)) ELSE table,
                Tail(requests))

InitMedia ==
    /\ env = PageEnv
    /\ config = Config_init(PageEnv)
    /\ training = <<>>
    /\ http = <<>>
    /\ ui = {}
    /\ act = NoAction
    /\ session = <<>>
    /\ widgets = [page |-> "none"]
    /\ screen = {}
    /\ media \in [Hashes -> MediaRows]
    /\ cache = <<>>

\* A user interaction with a media page: the script runs with the widget
\* values `w` and the pressed button `click`; when that run ends in
\* st.rerun() the script runs once more, without a click.
MediaInteraction(page, name, w, click) ==
    \E api1 \in MediaApi(page, session, click, media) :
      \E r1 \in {PageMain(page, config, session, cache, w, click, api1)} :
        \E r \in IF r1.rerun
                  THEN {[r2 EXCEPT !.http = r1.http \o @, !.handled = r1.handled] :
                          r2 \in {PageMain(page, config, r1.session, r1.cache, w,
                                           NoClick, api2) :
                                    api2 \in MediaApi(page, r1.session, NoClick,
                                                      Served(media, r1.http))}}
                  ELSE {r1} :
            /\ session' = r.session
            /\ cache' = r.cache
            /\ http' = r.http
            /\ ui' = r.ui
            /\ screen' = r.screen
            /\ widgets' = w
            /\ media' = Served(media, r.http)
            /\ act' = [name |-> name, page |-> page, click |-> click,
                       item |-> Get(session, "selected_item", None),
                       handled |-> r1.handled, rerun |-> r1.rerun]
            /\ UNCHANGED <<env, config, training>>

\* The media page is opened or reloaded.
OpenMedia == MediaInteraction("media", "open", MediaWidgets(session), NoClick)

\* "edit" button of a listed item (media.py:326)
ClickEditMedia ==
    /\ widgets.page = "media"
    /\ \E b \in screen :
          /\ b[1] = "edit"
          /\ MediaInteraction("media", "edit", widgets,
                              [kind |-> "edit", idx |-> b[2]])

\* "Submit Pipeline Update" in the edit view of media.py (line 541), with the
\* values `new` selected in the three selectboxes.
SubmitMedia ==
    /\ widgets.page = "media"
    /\ <<"submit", 0>> \in screen
    /\ \E new \in MediaRows :
          MediaInteraction("media", "submit", widgets,
                           [kind |-> "submit", new |-> new])

\* "Back to Results" in the edit view of media.py (line 384)
BackMedia ==
    /\ widgets.page = "media"
    /\ <<"back", 0>> \in screen
    /\ MediaInteraction("media", "back", widgets, [kind |-> "back"])

\* The media-pipeline page is opened or reloaded.
OpenMediaPipeline ==
    MediaInteraction("media_pipeline", "open", MediaPipelineWidgets, NoClick)

\* "Search" button of media_pipeline.py (line 247), with one of `inputs` in
\* the search widgets.
SearchMediaPipeline(inputs) ==
    /\ widgets.page = "media_pipeline"
    /\ \E input \in inputs :
          MediaInteraction("media_pipeline", "search",
              [page |-> "media_pipeline", search_term |-> input.search_term,
               search_type |-> input.search_type],
              [kind |-> "search"])

\* "Select" button of a search result (media_pipeline.py:308)
SelectMediaPipeline ==
    /\ widgets.page = "media_pipeline"
    /\ \E b \in screen :
          /\ b[1] = "select"
          /\ MediaInteraction("media_pipeline", "select", widgets,
                              [kind |-> "select", idx |-> b[2]])

\* "Submit Pipeline Update" of media_pipeline.py (line 176)
SubmitMediaPipeline ==
    /\ widgets.page = "media_pipeline"
    /\ <<"submit", 0>> \in screen
    /\ \E new \in MediaRows :
          MediaInteraction("media_pipeline", "submit", widgets,
                           [kind |-> "submit", new |-> new])

\* "Back to Results" of media_pipeline.py (line 279)
BackMediaPipeline ==
    /\ widgets.page = "media_pipeline"
    /\ <<"back", 0>> \in screen
    /\ MediaInteraction("media_pipeline", "back", widgets, [kind |-> "back"])

\* The ttl of a cache entry elapses before the user's next interaction.
CacheExpires ==
    /\ \E key \in DOMAIN cache :
          cache' = [k \in DOMAIN cache \ {key} |-> cache[k]]
    /\ UNCHANGED <<env, config, training, http, ui, act, pageVars, media>>

\* A session on the media-pipeline page.
NextMediaPipeline ==
    \/ OpenMediaPipeline
    \/ SearchMediaPipeline(SearchInputs)
    \/ SelectMediaPipeline
    \/ SubmitMediaPipeline
    \/ BackMediaPipeline
    \/ CacheExpires

SpecMediaPipeline == InitMedia /\ [][NextMediaPipeline]_vars

\* A session that uses both pages, and searches by hash.
HashSearches == {input \in SearchInputs : input.search_type = "hash"}

NextMedia ==
    \/ OpenMedia
    \/ ClickEditMedia
    \/ SubmitMedia
    \/ BackMedia
    \/ OpenMediaPipeline
    \/ SearchMediaPipeline(HashSearches)
    \/ SelectMediaPipeline
    \/ SubmitMediaPipeline
    \/ BackMediaPipeline
    \/ CacheExpires

SpecMedia == InitMedia /\ [][NextMedia]_vars

(***************************************************************************)
(* A browser session on the Media Pipeline Management page                 *)
(***************************************************************************)

\* What the user types into the two search fields.
HashInputs == {"", "h1", " h1"}
TitleInputs == {"", "t"}

\* What the user selects in an item's form; "" is the empty first option.
FormSelections ==
    [pipeline_status : {"", "paused"}, error_status : {"", "true", "false"},
     rejection_status : {"", "accepted"}]

ManagementWidgets == [page |-> ManagementPage, hash_input |-> "", title_input |-> ""]

\* The page is opened or reloaded; what was typed stays in the fields.
OpenManagement ==
    MediaInteraction(ManagementPage, "open",
        IF widgets.page = ManagementPage THEN widgets ELSE ManagementWidgets,
        NoClick)

\* "Search by Hash" button (media-pipeline.py:318)
SearchByHash ==
    /\ widgets.page = ManagementPage
    /\ \E text \in HashInputs :
          MediaInteraction(ManagementPage, "search_hash",
              [widgets EXCEPT !.hash_input = text], [kind |-> "search_hash"])

\* "Search by Title" button (media-pipeline.py:327)
SearchByTitle ==
    /\ widgets.page = ManagementPage
    /\ \E text \in TitleInputs :
          MediaInteraction(ManagementPage, "search_title",
              [widgets EXCEPT !.title_input = text], [kind |-> "search_title"])

\* "Update Pipeline" button of the form of a displayed item
\* (media-pipeline.py:233), with the values `new` selected in the form.
ClickUpdatePipeline ==
    /\ widgets.page = ManagementPage
    /\ \E b \in screen, new \in FormSelections :
          /\ b[1] = "update_pipeline"
          /\ MediaInteraction(ManagementPage, "update_pipeline", widgets,
                 [kind |-> "update_pipeline", hash |-> b[2], new |-> new])

NextManagement ==
    \/ OpenManagement
    \/ SearchByHash
    \/ SearchByTitle
    \/ ClickUpdatePipeline
    \/ CacheExpires

SpecManagement == InitMedia /\ [][NextManagement]_vars

(***************************************************************************)
(* C4                                                                      *)
(***************************************************************************)

\* C4: on the Media Pipeline Management page, once a search has displayed an
\* item, choosing at least one new value in the item's form and clicking
\* "Update Pipeline" sends, in the run the click triggers, a PATCH to that
\* item's pipeline endpoint, and the item is displayed afterwards.
C4_UpdateApplied ==
    (act.name = "update_pipeline" /\ DOMAIN form_updates(act.click.new) # {}) =>
        /\ \E i \in DOMAIN http :
              /\ http[i].method = "PATCH"
              /\ http[i].url = get_media_pipeline_endpoint(config, act.click.hash)
        /\ <<"update_pipeline", act.click.hash>> \in screen

(***************************************************************************)
(* C1                                                                      *)
(***************************************************************************)

\* The error messages the media pages show for a request that failed.
MediaErrorMessages ==
    {"Failed to fetch media data: " \o o : o \in GetOutcomes \ {"ok"}}
    \cup {"Failed to search media: " \o o : o \in GetOutcomes \ {"ok"}}
    \cup {"Failed to update pipeline status!"}

\* The request of fetch_error_count failed.
ErrorCountFailed ==
    \E i \in DOMAIN http :
        /\ http[i].method = "GET"
        /\ http[i].params = [limit |-> ErrorCountLimit, error_status |-> "true"]
        /\ http[i].outcome # "ok"

\* C1: every failure of an HTTP call made by a page is surfaced to the user
\* as an inline error message, the count fetch of the media page included: a
\* failed count fetch is never presented as "No errors".
C1_FailuresSurfaced ==
    /\ (\E i \in DOMAIN http : http[i].outcome # "ok") =>
           ui \cap MediaErrorMessages # {}
    /\ ErrorCountFailed => "No errors" \notin ui

(***************************************************************************)
(* C5                                                                      *)
(***************************************************************************)

\* C5: on the media-pipeline page, after a successful "Submit Pipeline
\* Update" (the PATCH and every other request of the interaction succeeded)
\* selected_item in the next rendered run is the item as the API stores it
\* after the PATCH, whatever searches preceded.
C5_RefreshShowsUpdated ==
    (/\ act.name = "submit"
     /\ act.page = "media_pipeline"
     /\ http # <<>>
     /\ \A i \in DOMAIN http : http[i].outcome = "ok") =>
        session.selected_item =
            Some(Item(Val(act.item).hash, media[Val(act.item).hash]))

(***************************************************************************)
(* C6                                                                      *)
(***************************************************************************)

PipelineFields == {"pipeline_status", "error_status", "rejection_status"}

\* The fields whose selected value differs from the value the item has in
\* the edit view the Submit button was pressed in.
DifferingFields ==
    {f \in PipelineFields : act.click.new[f] # current_values(Val(act.item))[f]}

PatchRequests == {i \in DOMAIN http : http[i].method = "PATCH"}

\* C6: in the edit views of media.py and media_pipeline.py "Submit Pipeline
\* Update" sends one PATCH, to the item's pipeline endpoint, whose payload is
\* the item's hash plus exactly the fields whose selected value differs from
\* the item's current value; when no field differs no request is sent, "No
\* changes detected" is shown and selected_item is left unchanged.
C6_SubmitPayload ==
    (act.name = "submit" /\ act.page \in MediaPages) =>
        IF DifferingFields = {}
        THEN /\ http = <<>>
             /\ "No changes detected" \in ui
             /\ session.selected_item = act.item
        ELSE /\ PatchRequests = {1}
             /\ http[1].url =
                    get_media_pipeline_endpoint(config, Val(act.item).hash)
             /\ DOMAIN http[1].json = {"hash"} \cup DifferingFields
             /\ http[1].json.hash = Val(act.item).hash
             /\ \A f \in DifferingFields : http[1].json[f] = act.click.new[f]

\* On the media page an update of two of the three fields was accepted, and
\* the page is back on its list.
C6_Witness ==
    /\ act.name = "submit" /\ act.page = "media"
    /\ DifferingFields = {"error_status", "rejection_status"}
    /\ http # <<>> /\ http[1].method = "PATCH" /\ http[1].outcome = "ok"
    /\ media[Val(act.item).hash].error_status = act.click.new.error_status
    /\ IsNone(session.selected_item)

(***************************************************************************)
(* pages/training.py: the script run                                       *)
(***************************************************************************)

\* Config.training_endpoint
training_endpoint(c) == base_url(c) \o "training"

\* The movies the model follows, in the order the API lists them, and the
\* further movies the API may hold: enough of them to fill a page.
TrainingOrder == <<"tt1">>
FurtherIds == [i \in 1..20 |-> "x" \o ToString(i)]

TrainingPageRows ==
    {[label |-> "", human_labeled |-> FALSE, reviewed |-> FALSE, anomalous |-> FALSE],
     [label |-> "would_watch", human_labeled |-> TRUE, reviewed |-> TRUE,
      anomalous |-> TRUE]}

TrainingItem(imdb_id, row) ==
    [imdb_id |-> imdb_id, media_title |-> "t", label |-> row.label,
     anomalous |-> row.anomalous, reviewed |-> row.reviewed]

\* Whether the API lists `item` for the query parameters `params`.
TrainingMatches(item, params) ==
    /\ "imdb_id" \in DOMAIN params => item.imdb_id = params.imdb_id
    /\ "media_title" \in DOMAIN params => item.media_title = params.media_title
    /\ "reviewed" \in DOMAIN params => item.reviewed = (params.reviewed = "true")
    /\ "anomalous" \in DOMAIN params => item.anomalous = (params.anomalous = "true")
    /\ "label" \in DOMAIN params => item.label = params.label

\* The "data" list the API answers GET training with.
ApiTrainingList(table, params) ==
    LET order == SelectSeq(TrainingOrder \o FurtherIds, LAMBDA id : id \in DOMAIN table)
        all == [i \in DOMAIN order |-> TrainingItem(order[i], table[order[i]])]
        matching == SelectSeq(all, LAMBDA item : TrainingMatches(item, params))
        first == params.offset + 1
        last == Min(Len(matching), first - 1 + params.limit)
    IN  IF first > last THEN <<>> ELSE SubSeq(matching, first, last)

UnreviewedCountLimit == 1000

\* training.py fetch_unreviewed_count
fetch_unreviewed_count(c, api) ==
    LET params == [limit |-> UnreviewedCountLimit, reviewed |-> "false",
                   media_type |-> "movie"]
        req == GetRequest(training_endpoint(c), params, api.count)
    IN  IF api.count = "ok"
        THEN Call(<<req>>, Len(ApiTrainingList(api.table, Put(params, "offset", 0))), {})
        ELSE Call(<<req>>, 0, {})

\* training.py:417-445: the dict `params` of fetch_training_data
training_params(limit, offset, search_term, search_type, reviewed_filter, anomalous_filter, label_filter) ==
    LET paging == [limit |-> limit, offset |-> offset, sort_by |-> "updated_at",
                   sort_order |-> "desc", media_type |-> "movie"]
        searched == IF Falsy(search_term) THEN paging
                    ELSE IF search_type = "imdb_id"
                    THEN Put(paging, "imdb_id", Val(search_term))
                    ELSE Put(paging, "media_title", Val(search_term))
        reviewed == IF reviewed_filter = "unreviewed"
                    THEN Put(searched, "reviewed", "false")
                    ELSE IF reviewed_filter = "reviewed"
                    THEN Put(searched, "reviewed", "true")
                    ELSE searched
        anomalous == IF anomalous_filter = "yes"
                     THEN Put(reviewed, "anomalous", "true")
                     ELSE IF anomalous_filter = "no"
                     THEN Put(reviewed, "anomalous", "false")
                     ELSE reviewed
    IN  IF label_filter # "all" THEN Put(anomalous, "label", label_filter)
        ELSE anomalous

\* training.py fetch_training_data, from the request on: the "data" list of
\* what it returns, or None, and the session state with last_api_url
fetch_training_with(c, ss, params, api) ==
    IF api.list = "ok"
    THEN [call |-> Call(<<GetRequest(training_endpoint(c), params, api.list)>>,
                        Some(ApiTrainingList(api.table, params)), {}),
          session |-> Put(ss, "last_api_url",
                          [url |-> training_endpoint(c), params |-> params])]
    ELSE [call |-> Call(<<GetRequest(training_endpoint(c), params, api.list)>>,
                        None, {"Failed to fetch training data: " \o api.list}),
          session |-> ss]

\* training.py fetch_training_data
fetch_training_data(c, ss, limit, offset, search_term, search_type, reviewed_filter, anomalous_filter, label_filter, api) ==
    fetch_training_with(c, ss,
        training_params(limit, offset, search_term, search_type, reviewed_filter,
                        anomalous_filter, label_filter),
        api)

\* training.py toggle_anomalous
toggle_anomalous(c, imdb_id, current_anomalous, outcome) ==
    Call(<<Request("PATCH", get_training_update_endpoint(c, imdb_id),
                   [imdb_id |-> imdb_id, anomalous |-> ~current_anomalous],
                   outcome)>>,
         outcome = "ok",
         IF outcome = "ok" THEN {}
         ELSE {"Failed to toggle anomalous for " \o imdb_id \o ": " \o outcome})

\* training.py would_not_watch_training
would_not_watch_training(c, imdb_id, outcome) ==
    Call(<<Request("PATCH", get_training_would_not_watch_endpoint(c, imdb_id),
                   <<>>, outcome)>>,
         outcome = "ok",
         IF outcome = "ok" THEN {}
         ELSE {"Failed to mark training item " \o imdb_id
                  \o " as would_not_watch: " \o outcome})

\* training.py would_watch_training
would_watch_training(c, imdb_id, outcome) ==
    Call(<<Request("PATCH", get_training_would_watch_endpoint(c, imdb_id),
                   <<>>, outcome)>>,
         outcome = "ok",
         IF outcome = "ok" THEN {}
         ELSE {"Failed to mark training item " \o imdb_id
                  \o " as would_watch: " \o outcome})

\* training.py:696-708
training_session_defaults(ss) ==
    SetDefault(SetDefault(SetDefault(SetDefault(SetDefault(SetDefault(ss,
        "search_term", ""),
        "search_type", "title"),
        "reviewed_filter", "unreviewed"),
        "anomalous_filter", "all"),
        "label_filter", "all"),
        "page_offset", 0)

\* training.py:725-728: what the popover says about the count
backlog_popover(unreviewed_count) ==
    IF unreviewed_count > 0
    THEN {ToString(unreviewed_count) \o " items in backlog"}
    ELSE {"Backlog cleared"}

\* training.py:773-799: the dict `params` built for the displayed URL
training_display_params(ss, w) ==
    <<<<"limit", PageSize>>, <<"offset", ss.page_offset>>,
      <<"sort_by", "updated_at">>, <<"sort_order", "desc">>,
      <<"media_type", "movie">>>>
    \o (IF w.search_input = "" THEN <<>>
        ELSE IF w.search_type_select = "imdb_id"
        THEN <<<<"imdb_id", w.search_input>>>>
        ELSE <<<<"media_title", w.search_input>>>>)
    \o (IF ss.reviewed_filter = "unreviewed" THEN <<<<"reviewed", "false">>>>
        ELSE IF ss.reviewed_filter = "reviewed" THEN <<<<"reviewed", "true">>>>
        ELSE <<>>)
    \o (IF ss.anomalous_filter = "yes" THEN <<<<"anomalous", "true">>>>
        ELSE IF ss.anomalous_filter = "no" THEN <<<<"anomalous", "false">>>>
        ELSE <<>>)
    \o (IF ss.label_filter # "all" THEN <<<<"label", ss.label_filter>>>> ELSE <<>>)

\* training.py:801-803: the URL shown by st.code
training_api_urls(c, ss, w) ==
    {<<"api_url", 1, api_url(training_endpoint(c), training_display_params(ss, w))>>}

RowActions == {"would_watch", "would_not", "anomalous"}

\* training.py:617-635: the call the handler of a row's button makes
row_action_call(c, item, kind, outcome) ==
    IF kind = "would_watch" THEN would_watch_training(c, item.imdb_id, outcome)
    ELSE IF kind = "would_not"
    THEN would_not_watch_training(c, item.imdb_id, outcome)
    ELSE toggle_anomalous(c, item.imdb_id, item.anomalous, outcome)

row_action_rerun_always(call) == TRUE

\* training.py:619-635: "if would_watch_training(...): st.rerun()"
row_action_rerun(call) == call.ret

\* training.py:617-635 and 854-868: the buttons of the list
row_buttons(ss, items) ==
    {<<kind, i>> : kind \in RowActions, i \in DOMAIN items}
        \cup (IF ss.page_offset > 0 THEN {<<"previous", 0>>} ELSE {})
        \cup (IF Len(items) = PageSize THEN {<<"next", 0>>} ELSE {})

rows_info(ss, count, items) ==
    backlog_popover(count.ret)
        \cup {"showing " \o ToString(ss.page_offset + 1) \o "-"
                 \o ToString(ss.page_offset + Len(items))}

\* training.py:617-635: the handler of a row's button has made its call
row_action_done(ss, requests, count, items, call, shown) ==
    IF row_action_rerun(call)
    THEN Handled(Run(ss, requests \o call.requests, {}, {}, TRUE))
    ELSE Handled(Run(ss, requests \o call.requests,
                     rows_info(ss, count, items) \cup call.errors,
                     row_buttons(ss, items) \cup shown, FALSE))

\* training.py:817-868: main() once fetch_training_data has returned `items`
training_rows(c, ss, w, click, count, requests, items, api, shown) ==
    IF items = <<>>
    THEN Run(ss, requests,
             backlog_popover(count.ret)
                 \cup (IF ss.reviewed_filter = "unreviewed" /\ w.search_input = ""
                       THEN {"Backlog cleared"} ELSE {"No movies found"}),
             shown, FALSE)
    ELSE IF click.kind \in RowActions /\ click.idx \in DOMAIN items
    THEN row_action_done(ss, requests, count, items,
             row_action_call(c, items[click.idx], click.kind, api.patch), shown)
    ELSE IF click.kind = "previous" /\ ss.page_offset > 0
    THEN Handled(Run(Put(ss, "page_offset", Max(0, ss.page_offset - PageSize)),
                     requests, {}, {}, TRUE))
    ELSE IF click.kind = "next" /\ Len(items) = PageSize
    THEN Handled(Run(Put(ss, "page_offset", ss.page_offset + PageSize),
                     requests, {}, {}, TRUE))
    ELSE Run(ss, requests, rows_info(ss, count, items),
             row_buttons(ss, items) \cup shown, FALSE)

\* training.py:805-818: main() from the answer of fetch_training_data on
training_listing(c, w, click, count, fetched, api, shown) ==
    IF IsNone(fetched.call.ret)
    THEN Run(fetched.session, count.requests \o fetched.call.requests,
             backlog_popover(count.ret) \cup fetched.call.errors, shown, FALSE)
    ELSE training_rows(c, fetched.session, w, click, count,
             count.requests \o fetched.call.requests, Val(fetched.call.ret),
             api, shown)

filter_selected(ss, key, value, count) ==
    Run(Put(Put(ss, key, value), "page_offset", 0), count.requests, {}, {}, TRUE)

\* training.py:710-815: main() from the answer `count` of
\* fetch_unreviewed_count on
training_filters(c, ss, w, click, count, api) ==
    IF w.reviewed_filter # ss.reviewed_filter
    THEN filter_selected(ss, "reviewed_filter", w.reviewed_filter, count)
    ELSE IF w.anomalous_filter # ss.anomalous_filter
    THEN filter_selected(ss, "anomalous_filter", w.anomalous_filter, count)
    ELSE IF w.label_filter # ss.label_filter
    THEN filter_selected(ss, "label_filter", w.label_filter, count)
    ELSE IF click.kind = "refresh"
    THEN Handled(Run(ss, count.requests, {}, {}, TRUE))
    ELSE training_listing(c, w, click, count,
             fetch_training_data(c, ss, PageSize, ss.page_offset,
                 IF w.search_input # "" THEN Some(w.search_input) ELSE None,
                 w.search_type_select, ss.reviewed_filter, ss.anomalous_filter,
                 ss.label_filter, api),
             api, training_api_urls(c, ss, w))

\* One script run of training.py main().
training_main(c, ss0, w, click, api) ==
    training_filters(c, training_session_defaults(ss0), w, click,
                     fetch_unreviewed_count(c, api), api)

(***************************************************************************)
(* A browser session on the list view of the media page: filters, search   *)
(* and pagination                                                          *)
(***************************************************************************)

\* How the Streamlit release in use identifies a widget that has a key: by
\* the key alone, so that the widget keeps the value the user gave it, or by
\* its parameters as well, so that a changed `value`/`index` parameter makes
\* it a new widget that starts from that parameter.  The release is part of
\* the environment the pages are deployed in.
WidgetIdentities == {"key", "parameters"}

BrowseEnv(identity) == Put(PageEnv, "widget_identity", identity)

\* The statuses the model's user picks in the "Pipeline Status" selectbox.
StatusChoices == {"All", "ingested", "downloading"}

FilterWidgets == {"filter_errors", "filter_in_transmission", "filter_pipeline_status"}

\* The values the keyed filter widgets (media.py:714-762) return in the run
\* that st.rerun() starts, `before` and `after` being the session state at the
\* start and at the end of the run that ended in st.rerun().
widgets_after_rerun(identity, w, before, after) ==
    IF identity = "key" THEN w
    ELSE [k \in DOMAIN w |->
            IF k \in FilterWidgets /\ after[k] # before[k] THEN after[k]
            ELSE w[k]]

\* The table of an API that holds the further entries as well: more than a
\* page of the list.
WithFurther(table) ==
    [h \in DOMAIN table \cup {FurtherHashes[i] : i \in DOMAIN FurtherHashes} |->
        IF h \in DOMAIN table THEN table[h] ELSE Row("ingested", FALSE, "unfiltered")]

\* The answers of the API to the requests of one run of the list view.  The
\* request of fetch_error_count is answered in this session; the sessions on
\* the edit views cover its failure.
MediaListApi(table, click) ==
    {MediaAnswer(count, list, "ok", patch, table) :
        count \in {"ok"},
        list \in {<<"ok", "ok", "ok">>, <<"Timeout", "ok", "ok">>,
                  <<"ok", "Timeout", "ok">>},
        patch \in IF click.kind \in ItemActions THEN {"ok", "HTTPError"}
                  ELSE {"ok"}}

\* The last run of an interaction: the widgets as they are then, and how
\* many requests each run of the interaction issued.
last_run(run, w) ==
    Put(Put(run, "widgets", w), "runs", <<Len(run.http)>>)

after_run(run, later) ==
    [later EXCEPT !.http = run.http \o @, !.handled = run.handled,
                  !.runs = <<Len(run.http)>> \o @]

\* The script runs of media.py one interaction causes: the run with the
\* click, and while a run ends in st.rerun() the run that this starts.
RECURSIVE media_runs(_, _, _, _, _, _, _)
media_runs(identity, c, ss, ch, w, click, table) ==
    UNION {IF run.rerun
           THEN {after_run(run, later) :
                    later \in media_runs(identity, c, run.session, run.cache,
                                 widgets_after_rerun(identity, w,
                                     media_session_defaults(ss), run.session),
                                 NoClick, Served(table, run.http))}
           ELSE {last_run(run, w)} :
              run \in {media_main(c, ss, ch, w, click, api) :
                          api \in MediaListApi(table, click)}}

InitMediaList ==
    /\ env \in {BrowseEnv(identity) : identity \in WidgetIdentities}
    /\ config = Config_init(PageEnv)
    /\ training = <<>>
    /\ http = <<>>
    /\ ui = {}
    /\ act = NoAction
    /\ session = <<>>
    /\ widgets = [page |-> "none"]
    /\ screen = {}
    /\ media \in [Hashes -> MediaRows] \cup {WithFurther(t) : t \in [Hashes -> MediaRows]}
    /\ cache = <<>>

\* A user interaction with the list view: `w` holds the values of the
\* widgets once the user has acted, `click` the button pressed (if any).
MediaListInteraction(name, w, click) ==
    \E r \in media_runs(env.widget_identity, config, session, cache, w, click,
                        media) :
        /\ session' = r.session
        /\ cache' = r.cache
        /\ http' = r.http
        /\ ui' = r.ui
        /\ screen' = r.screen
        /\ widgets' = r.widgets
        /\ media' = Served(media, r.http)
        /\ act' = [name |-> name, page |-> "media", click |-> click,
                   item |-> Get(session, "selected_item", None),
                   handled |-> r.handled, rerun |-> Len(r.runs) > 1,
                   runs |-> r.runs]
        /\ UNCHANGED <<env, config, training>>

\* The media page is opened or reloaded: its widgets are new.
OpenMediaList == MediaListInteraction("open", MediaWidgets(session), NoClick)

\* "Show errors only" checkbox (media.py:714)
ToggleErrors ==
    /\ widgets.page = "media"
    /\ MediaListInteraction("filter_errors",
           [widgets EXCEPT !.filter_errors = ~@], NoClick)

\* "In-transmission" checkbox (media.py:724), which is rendered disabled while
\* a specific pipeline status is selected.
ToggleInTransmission ==
    /\ widgets.page = "media"
    /\ session.filter_pipeline_status = "All"
    /\ MediaListInteraction("filter_in_transmission",
           [widgets EXCEPT !.filter_in_transmission = ~@], NoClick)

\* "Pipeline Status" selectbox (media.py:750)
SelectPipelineStatus ==
    /\ widgets.page = "media"
    /\ \E status \in StatusChoices \ {widgets.filter_pipeline_status} :
          MediaListInteraction("filter_pipeline_status",
              [widgets EXCEPT !.filter_pipeline_status = status], NoClick)

\* The texts the model's user types into the search field.
SearchTerms == {"", "h1", "a&b"}

\* The search field (media.py:699) and the "Search By" selectbox (media.py:702)
TypeSearch ==
    /\ widgets.page = "media"
    /\ \E term \in SearchTerms, type \in {"hash", "title"} :
          /\ <<term, type>> # <<widgets.search_input, widgets.search_type_select>>
          /\ MediaListInteraction("search",
                 [widgets EXCEPT !.search_input = term,
                                 !.search_type_select = type], NoClick)

\* The rows of the list whose buttons the model's user presses.
MaxClickedRow == 2

TrainingSearchTerms == {"", "tt1", "a&b"}

\* The largest offset from which the model's user presses "Next".
MaxOffset == 20

\* "re-ingest", "promote", "finish" and "delete" of a listed item
\* (media.py:329-361)
ClickItemAction ==
    /\ widgets.page = "media"
    /\ \E b \in screen :
          /\ b[1] \in ItemActions
          /\ b[2] <= MaxClickedRow
          /\ MediaListInteraction(b[1], widgets, [kind |-> b[1], idx |-> b[2]])

\* "Next" (media.py:871)
ClickNextMedia ==
    /\ widgets.page = "media"
    /\ <<"next", 0>> \in screen
    /\ session.page_offset <= MaxOffset
    /\ MediaListInteraction("next", widgets, [kind |-> "next"])

\* "Previous" (media.py:860)
ClickPreviousMedia ==
    /\ widgets.page = "media"
    /\ <<"previous", 0>> \in screen
    /\ MediaListInteraction("previous", widgets, [kind |-> "previous"])

\* The refresh button (media.py:765)
ClickRefresh ==
    /\ widgets.page = "media"
    /\ MediaListInteraction("refresh", widgets, [kind |-> "refresh"])

NextMediaList ==
    \/ OpenMediaList
    \/ ToggleErrors
    \/ ToggleInTransmission
    \/ SelectPipelineStatus

SpecMediaList == InitMediaList /\ [][NextMediaList]_vars

(***************************************************************************)
(* A browser session on the training page                                  *)
(***************************************************************************)

\* The widgets of the training page when it is opened.
TrainingWidgets(ss) ==
    [page |-> "training", search_input |-> "", search_type_select |-> "title",
     reviewed_filter |-> Get(ss, "reviewed_filter", "unreviewed"),
     anomalous_filter |-> Get(ss, "anomalous_filter", "all"),
     label_filter |-> Get(ss, "label_filter", "all")]

\* The options the model's user picks in the three filter selectboxes.
TrainingFilterChoices ==
    [reviewed_filter |-> {"unreviewed", "all"}, anomalous_filter |-> {"all", "yes"},
     label_filter |-> {"all", "would_watch"}]

\* The answers of the API to the requests of one run of the training page.
\* The request of fetch_unreviewed_count is answered or fails when the run
\* handles a button of a row, and is answered otherwise.
TrainingApi(table, click) ==
    {[count |-> count, list |-> list, patch |-> patch, table |-> table] :
        count \in IF click.kind \in RowActions THEN {"ok", "ConnectionError"}
                  ELSE {"ok"},
        list \in {"ok", "Timeout"},
        patch \in IF click.kind \in RowActions THEN {"ok", "HTTPError"}
                  ELSE {"ok"}}

\* The table of an API that follows the further movies as well: more than a
\* page of the list.
WithFurtherMovies(table) ==
    [id \in DOMAIN table \cup {FurtherIds[i] : i \in DOMAIN FurtherIds} |->
        IF id \in DOMAIN table THEN table[id]
        ELSE [label |-> "", human_labeled |-> FALSE, reviewed |-> FALSE,
              anomalous |-> FALSE]]

\* The API serves an accepted PATCH of a followed movie: the fields of the
\* payload replace the row's; would_watch and would_not_watch set the label
\* and mark the row human-labeled and reviewed.
ServedTrainingRequest(c, table, request) ==
    IF request.method # "PATCH" \/ request.outcome # "ok" THEN table
    ELSE [id \in DOMAIN table |->
            IF request.url = get_training_update_endpoint(c, id)
            THEN [f \in DOMAIN table[id] |->
                    IF f \in DOMAIN request.json THEN request.json[f]
                    ELSE table[id][f]]
            ELSE IF request.url = get_training_would_watch_endpoint(c, id)
            THEN [table[id] EXCEPT !.label = "would_watch",
                                   !.human_labeled = TRUE, !.reviewed = TRUE]
            ELSE IF request.url = get_training_would_not_watch_endpoint(c, id)
            THEN [table[id] EXCEPT !.label = "would_not_watch",
                                   !.human_labeled = TRUE, !.reviewed = TRUE]
            ELSE table[id]]

RECURSIVE ServedTraining(_, _, _)
ServedTraining(c, table, requests) ==
    IF requests = <<>> THEN table
    ELSE ServedTraining(c, ServedTrainingRequest(c, table, Head(requests)),
                        Tail(requests))

\* The script runs of training.py one interaction causes.
RECURSIVE training_runs(_, _, _, _, _)
training_runs(c, ss, w, click, table) ==
    UNION {IF run.rerun
           THEN {after_run(run, later) :
                    later \in training_runs(c, run.session, w, NoClick,
                                 ServedTraining(c, table, run.http))}
           ELSE {last_run(run, w)} :
              run \in {training_main(c, ss, w, click, api) :
                          api \in TrainingApi(table, click)}}

\* A user interaction with the training page.
TrainingInteraction(name, w, click) ==
    \E r \in training_runs(config, session, w, click, training) :
        /\ session' = r.session
        /\ http' = r.http
        /\ ui' = r.ui
        /\ screen' = r.screen
        /\ widgets' = r.widgets
        /\ training' = ServedTraining(config, training, r.http)
        /\ act' = [name |-> name, page |-> "training", click |-> click,
                   item |-> Get(session, "selected_item", None),
                   handled |-> r.handled, rerun |-> Len(r.runs) > 1,
                   runs |-> r.runs]
        /\ UNCHANGED <<env, config, mediaVars>>

\* The training page is opened or reloaded: its widgets are new.
OpenTraining == TrainingInteraction("open", TrainingWidgets(session), NoClick)

\* "Reviewed Status", "Anomalous" and "Label" selectboxes (training.py:731-766)
SelectTrainingFilter ==
    /\ widgets.page = "training"
    /\ \E key \in DOMAIN TrainingFilterChoices :
          \E value \in TrainingFilterChoices[key] \ {widgets[key]} :
              TrainingInteraction(key, [widgets EXCEPT ![key] = value], NoClick)

\* The search field (training.py:717) and the "Search By" selectbox
\* (training.py:720)
TypeTrainingSearch ==
    /\ widgets.page = "training"
    /\ \E term \in TrainingSearchTerms, type \in {"title", "imdb_id"} :
          /\ <<term, type>> # <<widgets.search_input, widgets.search_type_select>>
          /\ TrainingInteraction("search",
                 [widgets EXCEPT !.search_input = term,
                                 !.search_type_select = type], NoClick)

\* "would_watch", "would_not" and "anomalous" of a listed movie
\* (training.py:617-635)
ClickRowAction ==
    /\ widgets.page = "training"
    /\ \E b \in screen :
          /\ b[1] \in RowActions
          /\ b[2] <= MaxClickedRow
          /\ TrainingInteraction(b[1], widgets, [kind |-> b[1], idx |-> b[2]])

\* "Next" (training.py:866)
ClickNextTraining ==
    /\ widgets.page = "training"
    /\ <<"next", 0>> \in screen
    /\ session.page_offset <= MaxOffset
    /\ TrainingInteraction("next", widgets, [kind |-> "next"])

\* "Previous" (training.py:856)
ClickPreviousTraining ==
    /\ widgets.page = "training"
    /\ <<"previous", 0>> \in screen
    /\ TrainingInteraction("previous", widgets, [kind |-> "previous"])

(***************************************************************************)
(* C12                                                                     *)
(***************************************************************************)

\* The requests for the list that the last run of the media page issued.
ListRequests ==
    SelectSeq(http, LAMBDA request :
        request.method = "GET" /\ request.params.limit = PageSize)

StatusesQueried ==
    [i \in DOMAIN ListRequests |-> Get(ListRequests[i].params, "pipeline_status", "")]

AllListRequestsAnswered ==
    \A i \in DOMAIN ListRequests : ListRequests[i].outcome = "ok"

\* C12: on the media page a specific pipeline status and the In-transmission
\* shortcut are never both in effect: filter_pipeline_status # "All" implies
\* filter_in_transmission = False and the request filters on that single
\* status; with "All" and In-transmission checked the statuses queried are
\* downloading, downloaded and transferred.
C12_FiltersExclusive ==
    (act.name # "none" /\ act.page = "media") =>
        /\ session.filter_pipeline_status # "All" =>
              /\ session.filter_in_transmission = FALSE
              /\ StatusesQueried = <<session.filter_pipeline_status>>
        /\ (/\ session.filter_pipeline_status = "All"
            /\ session.filter_in_transmission
            /\ AllListRequestsAnswered) =>
              StatusesQueried = InTransmission

(***************************************************************************)
(* A browser session that visits the training page and the media page      *)
(***************************************************************************)

InitBrowse ==
    /\ env \in {BrowseEnv(identity) : identity \in WidgetIdentities}
    /\ config = Config_init(PageEnv)
    /\ training \in {[id \in {TrainingOrder[i] : i \in DOMAIN TrainingOrder} |-> row] :
                        row \in TrainingPageRows}
    /\ http = <<>>
    /\ ui = {}
    /\ act = NoAction
    /\ session = <<>>
    /\ widgets = [page |-> "none"]
    /\ screen = {}
    /\ media \in [Hashes -> {Row("ingested", FALSE, "unfiltered")}]
    /\ cache = <<>>

\* The same session with an API that holds more than a page of each list.
InitBrowseLists ==
    /\ env \in {BrowseEnv(identity) : identity \in WidgetIdentities}
    /\ config = Config_init(PageEnv)
    /\ training = WithFurtherMovies([id \in {TrainingOrder[1]} |->
                      [label |-> "", human_labeled |-> FALSE, reviewed |-> FALSE,
                       anomalous |-> FALSE]])
    /\ http = <<>>
    /\ ui = {}
    /\ act = NoAction
    /\ session = <<>>
    /\ widgets = [page |-> "none"]
    /\ screen = {}
    /\ media = WithFurther([h \in Hashes |-> Row("ingested", FALSE, "unfiltered")])
    /\ cache = <<>>

\* The buttons of the rows that change an item or a movie.
NextMutations ==
    \/ OpenTraining
    \/ ClickRowAction
    \/ OpenMediaList
    \/ ClickItemAction

SpecMutations == InitBrowse /\ [][NextMutations]_vars

\* The requests of the k-th script run of the last interaction.
RECURSIVE RequestsBefore(_)
RequestsBefore(k) == IF k = 1 THEN 0 ELSE RequestsBefore(k - 1) + act.runs[k - 1]

RunRequests(k) == SubSeq(http, RequestsBefore(k) + 1, RequestsBefore(k) + act.runs[k])

Failed(request) == request.outcome # "ok"

Mutations == ItemActions \cup RowActions

\* Two requests are attempts of the same call.
SameCall(a, b) == [a EXCEPT !.outcome = "ok"] = [b EXCEPT !.outcome = "ok"]

MaxCategory == 4
MaxValues == 3

\* str(n) and int(text) of a category value
Str(n) == ToString(n)
int_of(text) == CHOOSE n \in 0..(MaxCategory + 1) : Str(n) = text

\* sorted(...) of algo.py:275, by insertion
RECURSIVE insert_sorted(_, _)
insert_sorted(sorted_values, v) ==
    IF sorted_values = <<>> THEN <<v>>
    ELSE IF v <= Head(sorted_values) THEN <<v>> \o sorted_values
    ELSE <<Head(sorted_values)>> \o insert_sorted(Tail(sorted_values), v)

RECURSIVE sorted(_)
sorted(values) ==
    IF values = <<>> THEN <<>>
    ELSE insert_sorted(sorted(Tail(values)), Head(values))

\* algo.py:290-293 and 297-300: the text of a closed range, as its tokens
range_text(range_start, range_end) ==
    IF range_start = range_end THEN <<Str(range_start)>>
    ELSE <<Str(range_start), "-", Str(range_end)>>

\* algo.py:286-300: the loop over values[1:] and the closing of the last range
RECURSIVE build_ranges(_, _, _, _)
build_ranges(values, ranges, range_start, range_end) ==
    IF values = <<>>
    THEN Append(ranges, range_text(range_start, range_end))
    ELSE IF Head(values) = range_end + 1
    THEN build_ranges(Tail(values), ranges, range_start, Head(values))
    ELSE build_ranges(Tail(values),
                      Append(ranges, range_text(range_start, range_end)),
                      Head(values), Head(values))

\* ','.join(ranges)
RECURSIVE join(_)
join(ranges) ==
    IF ranges = <<>> THEN <<>>
    ELSE IF Len(ranges) = 1 THEN Head(ranges)
    ELSE Head(ranges) \o <<",">> \o join(Tail(ranges))

\* algo.py:268-303.  `match` holds the three groups of the pattern of
\* algo.py:309: the feature name, the texts between the commas of the set
\* and the rest of the label.
condense_category_set(match) ==
    IF match.values = <<>> THEN match
    ELSE [feature_name |-> match.feature_name,
          condensed |-> join(build_ranges(
              Tail(sorted([i \in DOMAIN match.values |-> int_of(match.values[i])])),
              <<>>,
              Head(sorted([i \in DOMAIN match.values |-> int_of(match.values[i])])),
              Head(sorted([i \in DOMAIN match.values |-> int_of(match.values[i])])))),
          rest |-> match.rest]

\* The category sets of the model: every list of one to MaxValues values, in
\* any order, with or without repeats.
CategoryLists ==
    UNION {[1..n -> 0..MaxCategory] : n \in 1..MaxValues}

InitCondense ==
    /\ env = <<>>
    /\ config = NoConfig
    /\ training = <<>>
    /\ http = <<>>
    /\ ui = {}
    /\ act \in {[name |-> "match", feature_name |-> "f0",
                 values |-> [i \in DOMAIN values |-> Str(values[i])],
                 rest |-> rest] :
                    values \in CategoryLists, rest \in {"", " yes"}}
    /\ NoPage
    /\ NoMedia

\* re.sub replaces the match by what condense_category_set returns
\* (algo.py:310).
Condense ==
    /\ act.name = "match"
    /\ act' = [name |-> "condensed", match |-> act,
               result |-> condense_category_set(act)]
    /\ UNCHANGED <<env, config, training, http, ui, pageVars, mediaVars>>

NextCondense == Condense

SpecCondense == InitCondense /\ [][NextCondense]_vars

(***************************************************************************)
(* C14                                                                     *)
(***************************************************************************)

\* The ranges a condensed text denotes: its tokens are split at the commas,
\* and "a" reads as a..a, "a-b" as a..b.
RECURSIVE split_ranges(_, _)
split_ranges(tokens, current) ==
    IF tokens = <<>> THEN <<current>>
    ELSE IF Head(tokens) = "," THEN <<current>> \o split_ranges(Tail(tokens), <<>>)
    ELSE split_ranges(Tail(tokens), Append(current, Head(tokens)))

RangesOf(tokens) == split_ranges(tokens, <<>>)

WellFormedRange(r) == Len(r) = 1 \/ (Len(r) = 3 /\ r[2] = "-")
Low(r) == int_of(r[1])
High(r) == int_of(r[Len(r)])

\* C14: for every non-empty list of non-negative integers, in any order and
\* with or without repeats, the condensed text is a list of ranges that are
\* strictly ascending and disjoint and are the maximal runs of the set (a
\* run a..b with b > a is written a-b, an isolated value as itself), the
\* numbers it denotes are exactly the numbers of the input, and the feature
\* name and the rest of the label are preserved.
C14_CondensedRanges ==
    act.name = "condensed" =>
        /\ act.result.feature_name = act.match.feature_name
        /\ act.result.rest = act.match.rest
        /\ \A i \in DOMAIN RangesOf(act.result.condensed) :
              /\ WellFormedRange(RangesOf(act.result.condensed)[i])
              /\ Len(RangesOf(act.result.condensed)[i]) = 3
                    => Low(RangesOf(act.result.condensed)[i])
                          < High(RangesOf(act.result.condensed)[i])
              /\ i > 1 => High(RangesOf(act.result.condensed)[i - 1]) + 1
                              < Low(RangesOf(act.result.condensed)[i])
        /\ UNION {Low(RangesOf(act.result.condensed)[i])
                      ..High(RangesOf(act.result.condensed)[i]) :
                    i \in DOMAIN RangesOf(act.result.condensed)}
             = {int_of(act.match.values[i]) : i \in DOMAIN act.match.values}

\* The same for the lists without repeats.
C14_WithoutRepeats ==
    (/\ act.name = "condensed"
     /\ \A i, j \in DOMAIN act.match.values :
           i # j => act.match.values[i] # act.match.values[j])
    => C14_CondensedRanges

(***************************************************************************)
(* A browser session that moves between the training page, the media page  *)
(* and the media-pipeline page.  st.session_state is one dictionary for     *)
(* all pages of the app.                                                    *)
(***************************************************************************)

\* "edit" button of one of the first rows of the list (media.py:326)
ClickEditListed ==
    /\ widgets.page = "media"
    /\ \E b \in screen :
          /\ b[1] = "edit"
          /\ b[2] <= MaxClickedRow
          /\ MediaListInteraction("edit", widgets, [kind |-> "edit", idx |-> b[2]])

NextSession ==
    \/ OpenTraining
    \/ ClickNextTraining
    \/ ClickPreviousTraining
    \/ OpenMediaList
    \/ ClickNextMedia
    \/ ClickPreviousMedia
    \/ ClickEditListed
    \/ BackMedia
    \/ OpenMediaPipeline
    \/ SearchMediaPipeline(HashSearches)
    \/ SelectMediaPipeline
    \/ BackMediaPipeline

SpecSession == InitBrowseLists /\ [][NextSession]_vars

(***************************************************************************)
(* C15                                                                     *)
(***************************************************************************)

\* The offset the training page lists from (training.py:707-708, 776), the
\* offset the media page lists from (media.py:685-686, 788), and whether the
\* media page (media.py:689) and the media-pipeline page
\* (media_pipeline.py:273) show the focused edit view, when the page runs in
\* a session whose state is `ss`.
TrainingOffset(ss) == training_session_defaults(ss).page_offset
MediaOffset(ss) == media_session_defaults(ss).page_offset
MediaFocused(ss) == Truthy(media_session_defaults(ss).selected_item)
MediaPipelineFocused(ss) == Truthy(Get(ss, "selected_item", None))

\* The button `name` of `page` was pressed and its handler ran.
Pressed(page, name) ==
    act'.name = name /\ act'.page = page /\ act'.handled

\* C15: the UI state of one page is not changed by actions on another page.
\* "Next" on the media page leaves the offset of the training page
\* unchanged and "Next" on the training page leaves the offset of the media
\* page unchanged; "Select" on the media-pipeline page does not put the media
\* page into the focused edit view and "edit" on the media page does not put
\* the media-pipeline page into it.
C15_Step ==
    /\ Pressed("media", "next") => TrainingOffset(session') = TrainingOffset(session)
    /\ Pressed("training", "next") => MediaOffset(session') = MediaOffset(session)
    /\ Pressed("media_pipeline", "select")
          => (MediaFocused(session') => MediaFocused(session))
    /\ Pressed("media", "edit")
          => (MediaPipelineFocused(session') => MediaPipelineFocused(session))

C15_PagesIndependent == [][C15_Step]_vars

(***************************************************************************)
(* C16                                                                     *)
(***************************************************************************)

\* The GET of the last interaction failed.
SearchFailed ==
    /\ http # <<>>
    /\ http[Len(http)].method = "GET"
    /\ http[Len(http)].outcome # "ok"

\* The user presses the search button `name` again with the same text in
\* the field `field`, right after a press whose GET failed.
SearchedAgain(name, field) ==
    /\ act.name = name
    /\ SearchFailed
    /\ act'.name = name
    /\ strip(widgets'[field]) = strip(widgets[field])

\* C16: a failed fetch is not remembered by the response cache.  After the
\* GET of search_media_by_hash or search_media_by_title has failed, the next
\* run that calls the function with the same argument issues the GET again.
C16_Step ==
    (SearchedAgain("search_hash", "hash_input")
        \/ SearchedAgain("search_title", "title_input"))
    => \E i \in DOMAIN http' : http'[i].method = "GET"

C16_FailureNotCached == [][C16_Step]_vars

(***************************************************************************)
(* A browser session on the lists of the training page and the media page: *)
(* search, filters and pagination                                          *)
(***************************************************************************)

\* The user stays on the page opened first: this session is about what one
\* page displays and sends, not about moving between the pages.
OpenTrainingFirst == widgets.page # "media" /\ OpenTraining
OpenMediaListFirst == widgets.page # "training" /\ OpenMediaList

NextListings ==
    \/ OpenTrainingFirst
    \/ SelectTrainingFilter
    \/ TypeTrainingSearch
    \/ ClickNextTraining
    \/ ClickPreviousTraining
    \/ OpenMediaListFirst
    \/ ToggleErrors
    \/ ToggleInTransmission
    \/ SelectPipelineStatus
    \/ TypeSearch
    \/ ClickNextMedia
    \/ ClickPreviousMedia

SpecListings == InitBrowseLists /\ [][NextListings]_vars

(***************************************************************************)
(* C17                                                                     *)
(***************************************************************************)

\* The query parameters a URL text shows to its reader: the text after "?"
\* is cut at every "&", and each piece at its first "=" into a name and a
\* value.
RECURSIVE split_at(_, _, _)
split_at(tokens, separator, current) ==
    IF tokens = <<>> THEN <<current>>
    ELSE IF Head(tokens) = separator
    THEN <<current>> \o split_at(Tail(tokens), separator, <<>>)
    ELSE split_at(Tail(tokens), separator, Append(current, Head(tokens)))

RECURSIVE after_first(_, _)
after_first(tokens, separator) ==
    IF tokens = <<>> THEN <<>>
    ELSE IF Head(tokens) = separator THEN Tail(tokens)
    ELSE after_first(Tail(tokens), separator)

ShownParameters(url) ==
    {<<piece[1], after_first(piece, "=")>> :
        piece \in {split_at(after_first(url, "?"), "&", <<>>)[i] :
                     i \in DOMAIN split_at(after_first(url, "?"), "&", <<>>)}}

\* The query parameters a request carries.
SentParameters(request) ==
    {<<name, ParamText(name, request.params[name])>> : name \in DOMAIN request.params}

\* The URLs on the screen, and the requests for a page of the list that the
\* run which rendered the screen has issued.
DisplayedUrls == {u \in screen : u[1] = "api_url"}

ListRequestsOfLastRun ==
    {i \in DOMAIN RunRequests(Len(act.runs)) :
        /\ RunRequests(Len(act.runs))[i].method = "GET"
        /\ "offset" \in DOMAIN RunRequests(Len(act.runs))[i].params}

\* C17: on the training page and on the media page, the query parameters
\* shown in the displayed API URL(s) are exactly the parameters, names and
\* values, of the request(s) for the list made in the same run, with one
\* displayed URL per request issued.
C17_DisplayedAsSent ==
    (act.name # "none" /\ act.page \in {"training", "media"}) =>
        /\ Cardinality(DisplayedUrls) = Cardinality(ListRequestsOfLastRun)
        /\ {ShownParameters(u[3]) : u \in DisplayedUrls}
             = {SentParameters(RunRequests(Len(act.runs))[i]) :
                  i \in ListRequestsOfLastRun}

\* The same for the runs whose requests are all answered and whose search
\* term holds no "&".
C17_PlainTermsAnswered ==
    (/\ act.name # "none"
     /\ act.page \in {"training", "media"}
     /\ widgets.search_input # "a&b"
     /\ \A i \in DOMAIN http : http[i].method = "GET" => http[i].outcome = "ok")
    => C17_DisplayedAsSent

(***************************************************************************)
(* pages/training.py and pages/prediction.py: the radar chart              *)
(*                                                                         *)
(* The chart computes with floats.  The model computes exactly, with the    *)
(* numbers (a + b*sqrt(3)) / d for integers a, b and d > 0: they hold the   *)
(* sines and cosines of the multiples of 30 degrees and are closed under    *)
(* the arithmetic of the chart.  Rounding is not modelled.                  *)
(***************************************************************************)

Abs(n) == IF n < 0 THEN -n ELSE n

RECURSIVE GCD(_, _)
GCD(m, n) == IF n = 0 THEN m ELSE GCD(n, m % n)

Number(a, b, d) == [a |-> a, b |-> b, d |-> d]

Reduced(a, b, d, g) == Number(a \div g, b \div g, d \div g)

\* (a + b*sqrt(3)) / d in lowest terms, with d > 0
Q(a, b, d) ==
    IF d < 0 THEN Reduced(-a, -b, -d, GCD(GCD(Abs(a), Abs(b)), -d))
    ELSE Reduced(a, b, d, GCD(GCD(Abs(a), Abs(b)), d))

Whole(n) == Number(n, 0, 1)
Plus(x, y) == Q(x.a * y.d + y.a * x.d, x.b * y.d + y.b * x.d, x.d * y.d)
Minus(x, y) == Q(x.a * y.d - y.a * x.d, x.b * y.d - y.b * x.d, x.d * y.d)
Times(x, y) == Q(x.a * y.a + 3 * x.b * y.b, x.a * y.b + x.b * y.a, x.d * y.d)
IsZero(x) == x.a = 0 /\ x.b = 0

\* x / y for y # 0: x * d * (a - b*sqrt(3)) / (a*a - 3*b*b)
Over(x, y) == Times(x, Q(y.a * y.d, -(y.b * y.d), y.a * y.a - 3 * y.b * y.b))

\* -1, 0 or 1
Sign(x) ==
    IF x.a >= 0 /\ x.b >= 0 THEN (IF IsZero(x) THEN 0 ELSE 1)
    ELSE IF x.a <= 0 /\ x.b <= 0 THEN -1
    ELSE IF x.a > 0 THEN (IF x.a * x.a > 3 * x.b * x.b THEN 1 ELSE -1)
    ELSE (IF 3 * x.b * x.b > x.a * x.a THEN 1 ELSE -1)

\* math.cos(math.radians(theta)) and math.sin(math.radians(theta)) for the
\* multiples of 30 degrees
cos(theta) ==
    CASE theta % 360 = 0 -> Number(1, 0, 1)
      [] theta % 360 \in {30, 330} -> Number(0, 1, 2)
      [] theta % 360 \in {60, 300} -> Number(1, 0, 2)
      [] theta % 360 \in {90, 270} -> Number(0, 0, 1)
      [] theta % 360 \in {120, 240} -> Number(-1, 0, 2)
      [] theta % 360 \in {150, 210} -> Number(0, -1, 2)
      [] theta % 360 = 180 -> Number(-1, 0, 1)

sin(theta) == cos(theta + 270)

unclamped(t) == t

\* max(0, t), training.py:235
clamped(t) == IF Sign(t) < 0 THEN Whole(0) ELSE t

\* training.py:228-235: denom, the fall-back to the average, and t.  For
\* the radii and angles of the model a denom that is not 0 is larger than
\* 1e-10 in magnitude.
midpoint_from(r1, r2, x1, y1, dx_ray, dy_ray, dx_line, dy_line) ==
    IF IsZero(Minus(Times(dx_ray, dy_line), Times(dy_ray, dx_line)))
    THEN Over(Plus(r1, r2), Whole(2))
    ELSE clamped(Over(Minus(Times(x1, dy_line), Times(y1, dx_line)),
                      Minus(Times(dx_ray, dy_line), Times(dy_ray, dx_line))))

\* training.py:216-219: the direction of the ray and of the line
midpoint_on(r1, r2, x1, y1, x2, y2, dx_ray, dy_ray) ==
    midpoint_from(r1, r2, x1, y1, dx_ray, dy_ray, Minus(x2, x1), Minus(y2, y1))

\* training.py:200-235 (prediction.py:193-215 is the same function)
get_geometric_midpoint_radius(r1, theta1, r2, theta2, theta_mid) ==
    midpoint_on(r1, r2,
                Times(r1, cos(theta1)), Times(r1, sin(theta1)),
                Times(r2, cos(theta2)), Times(r2, sin(theta2)),
                cos(theta_mid), sin(theta_mid))

\* A column of the item as the API delivers it: NULL, a text, or a number.
Null == [kind |-> "null"]
TextValue(text) == [kind |-> "text", text |-> text]
NumberValue(n) == [kind |-> "number", number |-> n]

\* training.py:246-252
is_null_value(val) ==
    val.kind = "null" \/ (val.kind = "text" /\ strip(val.text) = "")

\* training.py:255-272: safe_float and safe_int of a NULL or of a text that
\* is no number are the default 0
safe_number(val) ==
    IF is_null_value(val) \/ val.kind = "text" THEN 0 ELSE val.number

\* math.log10 of a power of ten
RECURSIVE log10(_)
log10(n) == IF n < 10 THEN 0 ELSE 1 + log10(n \div 10)

\* training.py:192-197 and 238-243: normalize_imdb_votes and
\* normalize_tmdb_votes, for vote counts that are powers of ten
normalize_votes(votes, max_votes) ==
    IF votes <= 0 THEN Whole(0)
    ELSE IF log10(votes) >= log10(max_votes) THEN Whole(100)
    ELSE Over(Whole(log10(votes) * 100), Whole(log10(max_votes)))

NULL_VALUE == 10
ImdbMaxVotes == 1000000
TmdbMaxVotes == 100000

\* training.py:291-334: the six metrics, in the order of their axes
MetricNames ==
    <<"rt_score", "metascore", "imdb_rating", "imdb_votes", "tmdb_rating",
      "tmdb_votes">>

metric_value(db_name, raw) ==
    IF is_null_value(raw) THEN Whole(NULL_VALUE)
    ELSE IF db_name = "imdb_votes" THEN normalize_votes(safe_number(raw), ImdbMaxVotes)
    ELSE IF db_name = "tmdb_votes" THEN normalize_votes(safe_number(raw), TmdbMaxVotes)
    ELSE IF db_name = "tmdb_rating" THEN Whole(safe_number(raw) * 10)
    ELSE Whole(safe_number(raw))

metrics_of(item) ==
    [k \in DOMAIN MetricNames |->
        [db_name |-> MetricNames[k], angle |-> 60 * (k - 1),
         value |-> metric_value(MetricNames[k], item[MetricNames[k]]),
         is_null |-> is_null_value(item[MetricNames[k]])]]

\* training.py:340-341, for the k-th metric of the list
prev_i(metrics, k) == ((k - 2) % Len(metrics)) + 1
next_i(metrics, k) == (k % Len(metrics)) + 1

\* training.py:339-363: the wedge of the k-th metric
wedge(metrics, k) ==
    [mid_before |-> (metrics[k].angle - 30) % 360,
     mid_after |-> (metrics[k].angle + 30) % 360,
     val_mid_before |->
        get_geometric_midpoint_radius(
            metrics[prev_i(metrics, k)].value, metrics[prev_i(metrics, k)].angle,
            metrics[k].value, metrics[k].angle,
            (metrics[k].angle - 30) % 360),
     value |-> metrics[k].value,
     val_mid_after |->
        get_geometric_midpoint_radius(
            metrics[k].value, metrics[k].angle,
            metrics[next_i(metrics, k)].value, metrics[next_i(metrics, k)].angle,
            (metrics[k].angle + 30) % 360),
     is_null |-> metrics[k].is_null]

\* training.py:275-363: the wedges create_radar_chart draws
create_radar_chart(item) ==
    [k \in DOMAIN MetricNames |-> wedge(metrics_of(item), k)]

\* The radii of the calls and the raw values of the items in the model.
MaxRadius == 2
Angles == {30 * k : k \in 0..11}
AxisAngles == {60 * k : k \in 0..5}

RawValues(db_name) ==
    {Null, TextValue(" "),
     NumberValue(IF db_name \in {"imdb_votes", "tmdb_votes"} THEN 1000
                 ELSE IF db_name \in {"imdb_rating", "tmdb_rating"} THEN 7
                 ELSE 50)}
        \cup (IF db_name = "rt_score" THEN {NumberValue(0), TextValue("n/a")}
              ELSE {})

Items ==
    {item \in [{MetricNames[k] : k \in DOMAIN MetricNames} ->
                 UNION {RawValues(MetricNames[k]) : k \in DOMAIN MetricNames}] :
        \A k \in DOMAIN MetricNames :
            item[MetricNames[k]] \in RawValues(MetricNames[k])}

InitRadar ==
    /\ env = <<>>
    /\ config = NoConfig
    /\ training = <<>>
    /\ http = <<>>
    /\ ui = {}
    /\ act \in {[name |-> "item", item |-> item] : item \in Items}
            \cup {[name |-> "points", r1 |-> r1, theta1 |-> theta1, r2 |-> r2,
                   theta2 |-> theta2, theta_mid |-> theta_mid] :
                     r1 \in 0..MaxRadius, r2 \in 0..MaxRadius,
                     theta1 \in AxisAngles, theta2 \in AxisAngles,
                     theta_mid \in Angles}
    /\ NoPage
    /\ NoMedia

\* display_movie_row draws the chart of an item (training.py:275).
CreateRadarChart ==
    /\ act.name = "item"
    /\ act' = [name |-> "chart", item |-> act.item,
               wedges |-> create_radar_chart(act.item)]
    /\ UNCHANGED <<env, config, training, http, ui, pageVars, mediaVars>>

\* get_geometric_midpoint_radius is called with two points and a ray.
CallMidpointRadius ==
    /\ act.name = "points"
    /\ act' = [name |-> "midpoint", call |-> act,
               ret |-> get_geometric_midpoint_radius(Whole(act.r1), act.theta1,
                           Whole(act.r2), act.theta2, act.theta_mid)]
    /\ UNCHANGED <<env, config, training, http, ui, pageVars, mediaVars>>

NextRadar ==
    \/ CreateRadarChart
    \/ CallMidpointRadius

SpecRadar == InitRadar /\ [][NextRadar]_vars

(***************************************************************************)
(* C18                                                                     *)
(***************************************************************************)

\* In polar form: the line through (r1, theta1) and (r2, theta2) is parallel
\* to the ray at theta_mid when r2*sin(theta2 - theta_mid) =
\* r1*sin(theta1 - theta_mid), and otherwise meets the ray's line at the
\* signed distance r1*r2*sin(theta2 - theta1) divided by the difference of
\* the two.
PolarDenominator(call) ==
    Minus(Times(Whole(call.r2), sin(call.theta2 - call.theta_mid + 360)),
          Times(Whole(call.r1), sin(call.theta1 - call.theta_mid + 360)))

PolarDistance(call) ==
    Over(Times(Whole(call.r1 * call.r2), sin(call.theta2 - call.theta1 + 360)),
         PolarDenominator(call))

\* The point at distance `radius` on the ray at theta_mid lies on the line
\* through the two points: the cross product of (point - p1) and (p2 - p1)
\* is zero.
OnTheLine(call, radius) ==
    IsZero(Minus(
        Times(Minus(Times(radius, cos(call.theta_mid)),
                    Times(Whole(call.r1), cos(call.theta1))),
              Minus(Times(Whole(call.r2), sin(call.theta2)),
                    Times(Whole(call.r1), sin(call.theta1)))),
        Times(Minus(Times(radius, sin(call.theta_mid)),
                    Times(Whole(call.r1), sin(call.theta1))),
              Minus(Times(Whole(call.r2), cos(call.theta2)),
                    Times(Whole(call.r1), cos(call.theta1))))))

\* C18: get_geometric_midpoint_radius returns the distance from the origin
\* at which the line through the two polar points meets the ray at
\* theta_mid, clamped to be at least 0, and (r1 + r2) / 2 when line and ray
\* are parallel; in create_radar_chart val_mid_after of a metric equals
\* val_mid_before of the next metric, cyclically over the six axes, and a
\* NULL metric is drawn with the value 10.
C18_RadarGeometry ==
    /\ act.name = "midpoint" =>
          /\ Sign(act.ret) >= 0
          /\ IF IsZero(PolarDenominator(act.call))
             THEN act.ret = Over(Whole(act.call.r1 + act.call.r2), Whole(2))
             ELSE IF Sign(PolarDistance(act.call)) >= 0
             THEN /\ act.ret = PolarDistance(act.call)
                  /\ OnTheLine(act.call, act.ret)
             ELSE act.ret = Whole(0)
    /\ act.name = "chart" =>
          \A k \in DOMAIN act.wedges :
              /\ act.wedges[k].val_mid_after
                    = act.wedges[(k % 6) + 1].val_mid_before
              /\ act.wedges[k].mid_after = act.wedges[(k % 6) + 1].mid_before
              /\ is_null_value(act.item[MetricNames[k]])
                    => act.wedges[k].value = Whole(10)

\* A call whose line meets the ray behind the origin, so that the result is
\* clamped.
C18_Witness ==
    /\ act.name = "midpoint"
    /\ ~IsZero(PolarDenominator(act.call))
    /\ Sign(PolarDistance(act.call)) < 0
    /\ act.ret = Whole(0)

====
